---------------------------- MODULE Spec2Model ----------------------------
(***************************************************************************)
(* Shape matching engine of circuit-sketch (src/lib/matching.ts, in two    *)
(* variants: the bounding-box variant of src/unnamed/part_000 and the PCA  *)
(* variant of src/src/lib/matching.ts).                                    *)
(*                                                                         *)
(* NUMBERS.  A JavaScript number is modelled exactly, as a pair <<n, d>>:  *)
(*   d > 0, gcd(|n|, d) = 1   the rational n/d                             *)
(*   <<0, 0>>                 NaN                                          *)
(*   <<1, 0>>, <<-1, 0>>      +Infinity, -Infinity                         *)
(* with the IEEE-754 rules for NaN and the infinities (0/0 = NaN,          *)
(* x/0 = +-Infinity, every comparison with NaN false, Math.max/Math.min    *)
(* NaN as soon as one argument is NaN).  Rounding and signed zeros are not *)
(* modelled: the arithmetic of finite values is exact.                     *)
(***************************************************************************)
EXTENDS Integers, Sequences, FiniteSets, TLC

\* ------------------------------------------------------------------ numbers

Abs(i) == IF i < 0 THEN -i ELSE i

Sign(i) == IF i > 0 THEN 1 ELSE IF i < 0 THEN -1 ELSE 0

RECURSIVE Gcd(_, _)
Gcd(a, b) == IF b = 0 THEN a ELSE Gcd(b, a % b)

\* The number n/d in canonical form (d = 0 gives NaN or an infinity).
Q(n, d) ==
  IF d = 0 THEN <<Sign(n), 0>>
  ELSE LET g == Gcd(Abs(n), Abs(d))
       IN  <<Sign(d) * (n \div g), Abs(d) \div g>>

NaN    == <<0, 0>>
PosInf == <<1, 0>>
NegInf == <<-1, 0>>
Zero   == <<0, 1>>
One    == <<1, 1>>
Num(i) == <<i, 1>>

IsNaN(a)    == a = NaN
IsFinite(a) == a[2] > 0

Neg(a) == <<-a[1], a[2]>>

\* a + b for finite a, b whose denominators have the common divisor g
AddOver(a, b, g) ==
  Q(a[1] * (b[2] \div g) + b[1] * (a[2] \div g), a[2] * (b[2] \div g))

\* a + b
Add(a, b) ==
  IF IsNaN(a) \/ IsNaN(b) THEN NaN
  ELSE IF a[2] = 0 /\ b[2] = 0 THEN (IF a = b THEN a ELSE NaN)
  ELSE IF a[2] = 0 THEN a
  ELSE IF b[2] = 0 THEN b
  ELSE AddOver(a, b, Gcd(a[2], b[2]))

\* a - b
Sub(a, b) == Add(a, Neg(b))

\* a * b   (0 * Infinity = NaN falls out of Q(0, 0))
Mul(a, b) == Q(a[1] * b[1], a[2] * b[2])

\* a / b   (0/0 = NaN, x/0 = +-Infinity, x/Infinity = 0)
Div(a, b) == Mul(a, Q(b[2], b[1]))

\* a < b for finite a, b whose denominators have the common divisor g
LtOver(a, b, g) ==
  IF g = 0 THEN a[1] * b[2] < b[1] * a[2]
  ELSE a[1] * (b[2] \div g) < b[1] * (a[2] \div g)

\* a < b, false when either is NaN
Lt(a, b) ==
  /\ ~IsNaN(a)
  /\ ~IsNaN(b)
  /\ IF a[2] = 0 /\ b[2] = 0 THEN a[1] < b[1]
     ELSE LtOver(a, b, Gcd(a[2], b[2]))

Gt(a, b) == Lt(b, a)

\* a >= b, false when either is NaN
Ge(a, b) == ~IsNaN(a) /\ ~IsNaN(b) /\ ~Lt(a, b)

Le(a, b) == Ge(b, a)

\* Math.max(a, b), Math.min(a, b)
Max2(a, b) == IF IsNaN(a) \/ IsNaN(b) THEN NaN ELSE IF Lt(a, b) THEN b ELSE a
Min2(a, b) == IF IsNaN(a) \/ IsNaN(b) THEN NaN ELSE IF Lt(b, a) THEN b ELSE a

\* Math.max(...xs), Math.min(...xs): -Infinity and +Infinity for no argument
RECURSIVE MaxOf(_)
MaxOf(xs) == IF xs = <<>> THEN NegInf ELSE Max2(Head(xs), MaxOf(Tail(xs)))

RECURSIVE MinOf(_)
MinOf(xs) == IF xs = <<>> THEN PosInf ELSE Min2(Head(xs), MinOf(Tail(xs)))

\* The largest r in lo..hi with r * r <= i (bisection), for lo * lo <= i.
RECURSIVE ISqrtIn(_, _, _)
ISqrtIn(i, lo, hi) ==
  IF lo >= hi THEN lo
  ELSE LET mid == (lo + hi + 1) \div 2
       IN  IF mid * mid <= i THEN ISqrtIn(i, mid, hi)
           ELSE ISqrtIn(i, lo, mid - 1)

\* The largest r with r * r <= i, for 0 <= i < 2^31.
ISqrt(i) == ISqrtIn(i, 0, IF i < 46340 THEN i ELSE 46340)

IsSquare(i) == i >= 0 /\ ISqrt(i) * ISqrt(i) = i

\* Math.sqrt(a), exact: a is NaN, an infinity, negative, or the square of a
\* rational (the inputs of the model keep every path length rational).
Sqrt(a) ==
  IF IsNaN(a) THEN NaN
  ELSE IF a[2] = 0 THEN (IF a = PosInf THEN PosInf ELSE NaN)
  ELSE IF a[1] < 0 THEN NaN
  ELSE Q(ISqrt(a[1]), ISqrt(a[2]))

\* Math.pow(a, 2)
Sq(a) == Mul(a, a)

\* ------------------------------------------------------------------- angles

(***************************************************************************)
(* Angles are measured in hundredths of a degree, so that Math.PI is the   *)
(* number 18000.  Math.atan2 is exact on the eight compass directions and  *)
(* on (0, 0); elsewhere it is read from a table of arctan(k/100) with      *)
(* linear interpolation, rounded down to a whole unit (within 0.02 degree  *)
(* of the true value).                                                     *)
(***************************************************************************)
MathPI == Num(18000)

ArcTanTable ==
  << 0, 57, 115, 172, 229, 286, 343, 400, 457, 514, 571, 628, 684, 741, 797,
     853, 909, 965, 1020, 1076, 1131, 1186, 1241, 1295, 1350, 1404, 1457,
     1511, 1564, 1617, 1670, 1722, 1774, 1826, 1878, 1929, 1980, 2030, 2081,
     2131, 2180, 2229, 2278, 2327, 2375, 2423, 2470, 2517, 2564, 2610, 2657,
     2702, 2747, 2792, 2837, 2881, 2925, 2968, 3011, 3054, 3096, 3138, 3180,
     3221, 3262, 3302, 3342, 3382, 3422, 3461, 3499, 3537, 3575, 3613, 3650,
     3687, 3723, 3760, 3795, 3831, 3866, 3901, 3935, 3969, 4003, 4036, 4070,
     4102, 4135, 4167, 4199, 4230, 4261, 4292, 4323, 4353, 4383, 4413, 4442,
     4471, 4500 >>

\* arctan(p/q) in units, for integers 0 <= p <= q, q > 0
ArcTan(p, q) ==
  LET k == (100 * p) \div q
  IN  IF k >= 100 THEN ArcTanTable[101]
      ELSE (ArcTanTable[k + 1] * q
              + (100 * p - k * q) * (ArcTanTable[k + 2] - ArcTanTable[k + 1]))
           \div q

\* Math.atan2(y, x) for finite or NaN arguments
Atan2(y, x) ==
  IF IsNaN(y) \/ IsNaN(x) THEN NaN
  ELSE LET ay == Abs(y[1]) * x[2]      \* |y| and |x| over a common denominator
           ax == Abs(x[1]) * y[2]
           g  == Gcd(ay, ax)
           a1 == IF ay = 0 /\ ax = 0 THEN 0
                 ELSE IF ay <= ax THEN ArcTan(ay \div g, ax \div g)
                 ELSE 9000 - ArcTan(ax \div g, ay \div g)
           a2 == IF x[1] < 0 THEN 18000 - a1 ELSE a1
       IN  Num(IF y[1] < 0 THEN -a2 ELSE a2)

(***************************************************************************)
(* Math.cos and Math.sin, exact on the multiples of a quarter turn and NaN  *)
(* on NaN.  The model rotates by no other angle: see AxisAligned.          *)
(***************************************************************************)
IsQuarterTurn(angle, k) ==
  /\ angle[2] = 1
  /\ angle[1] % 9000 = 0
  /\ (angle[1] \div 9000) % 4 = k

Cos(angle) == CASE IsQuarterTurn(angle, 0) -> One
                [] IsQuarterTurn(angle, 1) -> Zero
                [] IsQuarterTurn(angle, 2) -> Neg(One)
                [] IsQuarterTurn(angle, 3) -> Zero
                [] IsNaN(angle)            -> NaN

Sin(angle) == CASE IsQuarterTurn(angle, 0) -> Zero
                [] IsQuarterTurn(angle, 1) -> One
                [] IsQuarterTurn(angle, 2) -> Zero
                [] IsQuarterTurn(angle, 3) -> Neg(One)
                [] IsNaN(angle)            -> NaN

\* --------------------------------------------------------------- geometry

\* export type Point = { x: number; y: number }
Pt(x, y) == [x |-> x, y |-> y]

Xs(points) == [i \in 1..Len(points) |-> points[i].x]
Ys(points) == [i \in 1..Len(points) |-> points[i].y]

getBoundingBox(points) ==
  IF Len(points) = 0
  THEN [minX |-> Zero, maxX |-> Zero, minY |-> Zero, maxY |-> Zero,
        width |-> Zero, height |-> Zero, centerX |-> Zero, centerY |-> Zero]
  ELSE LET minX == MinOf(Xs(points))
           maxX == MaxOf(Xs(points))
           minY == MinOf(Ys(points))
           maxY == MaxOf(Ys(points))
       IN  [minX |-> minX, maxX |-> maxX, minY |-> minY, maxY |-> maxY,
            width |-> Sub(maxX, minX), height |-> Sub(maxY, minY),
            centerX |-> Div(Add(minX, maxX), Num(2)),
            centerY |-> Div(Add(minY, maxY), Num(2))]

\* Fault model: a bounding-box normalizePoints that scales without first
\* moving the box's corner to the origin.
normalizePointsUnshifted(points) ==
  IF Len(points) = 0 THEN <<>>
  ELSE LET bbox  == getBoundingBox(points)
           scale == Max2(bbox.width, bbox.height)
       IN  IF scale = Zero THEN points
           ELSE [i \in 1..Len(points) |->
                   Pt(Div(points[i].x, scale), Div(points[i].y, scale))]

\* Fault model: a division by the width of the box, whatever its height.
normalizePointsByWidth(points) ==
  IF Len(points) = 0 THEN <<>>
  ELSE LET bbox  == getBoundingBox(points)
           scale == bbox.width
       IN  IF scale = Zero THEN points
           ELSE [i \in 1..Len(points) |->
                   Pt(Div(Sub(points[i].x, bbox.minX), scale),
                      Div(Sub(points[i].y, bbox.minY), scale))]

\* normalizePoints of the bounding-box variant: no rotation, and the input
\* array itself is returned when the scale is 0.
normalizePointsBBox(points) ==
  IF Len(points) = 0 THEN <<>>
  ELSE LET bbox  == getBoundingBox(points)
           scale == Max2(bbox.width, bbox.height)
       IN  IF scale = Zero THEN points
           ELSE [i \in 1..Len(points) |->
                   Pt(Div(Sub(points[i].x, bbox.minX), scale),
                      Div(Sub(points[i].y, bbox.minY), scale))]

\* Math sum of a list of numbers (reduce with +)
RECURSIVE SumOf(_)
SumOf(xs) == IF xs = <<>> THEN Zero ELSE Add(Head(xs), SumOf(Tail(xs)))

\* getCentroid(points): the mean of the coordinates, (0, 0) for no point
getCentroid(points) ==
  IF Len(points) = 0 THEN Pt(Zero, Zero)
  ELSE Pt(Div(SumOf(Xs(points)), Num(Len(points))),
          Div(SumOf(Ys(points)), Num(Len(points))))

\* The covariance entries cxx, cxy, cyy of getPrincipalAngle.
covariance(points) ==
  LET centroid == getCentroid(points)
      dx == [i \in 1..Len(points) |-> Sub(points[i].x, centroid.x)]
      dy == [i \in 1..Len(points) |-> Sub(points[i].y, centroid.y)]
      n  == Num(Len(points))
  IN  [cxx |-> Div(SumOf([i \in 1..Len(points) |-> Mul(dx[i], dx[i])]), n),
       cxy |-> Div(SumOf([i \in 1..Len(points) |-> Mul(dx[i], dy[i])]), n),
       cyy |-> Div(SumOf([i \in 1..Len(points) |-> Mul(dy[i], dy[i])]), n)]

\* 0.5 * Math.atan2(2 * cxy, cxx - cyy), 0 for fewer than two points
getPrincipalAngle(points) ==
  IF Len(points) < 2 THEN Zero
  ELSE LET c == covariance(points)
       IN  Mul(Q(1, 2), Atan2(Mul(Num(2), c.cxy), Sub(c.cxx, c.cyy)))

\* rotatePoints(points, angle)
rotatePoints(points, angle) ==
  LET cos == Cos(angle)
      sin == Sin(angle)
  IN  [i \in 1..Len(points) |->
         Pt(Sub(Mul(points[i].x, cos), Mul(points[i].y, sin)),
            Add(Mul(points[i].x, sin), Mul(points[i].y, cos)))]

\* normalizePoints of the PCA variant: centre on the centroid, rotate the
\* principal axis onto the x axis, then scale by the bounding box.
normalizePointsPCA(points) ==
  IF Len(points) = 0 THEN <<>>
  ELSE LET centroid == getCentroid(points)
           centered == [i \in 1..Len(points) |->
                          Pt(Sub(points[i].x, centroid.x),
                             Sub(points[i].y, centroid.y))]
           angle    == getPrincipalAngle(centered)
           rotated  == rotatePoints(centered, Neg(angle))
           bbox     == getBoundingBox(rotated)
           scale    == Max2(bbox.width, bbox.height)
       IN  IF scale = Zero THEN rotated
           ELSE [i \in 1..Len(rotated) |->
                   Pt(Div(Sub(rotated[i].x, bbox.minX), scale),
                      Div(Sub(rotated[i].y, bbox.minY), scale))]

\* The two builds of the module: "bbox" is the bounding-box variant,
\* "pca" the PCA variant.
normalizePoints(build, points) ==
  IF build = "pca" THEN normalizePointsPCA(points)
  ELSE normalizePointsBBox(points)

\* Math.sqrt(Math.pow(a.x - b.x, 2) + Math.pow(a.y - b.y, 2))
segLength(a, b) == Sqrt(Add(Sq(Sub(a.x, b.x)), Sq(Sub(a.y, b.y))))

\* points.reduce(...): the sum of the segment lengths, 0 for one point
RECURSIVE pathLength(_, _)
pathLength(points, i) ==
  IF i <= 1 THEN Zero
  ELSE Add(pathLength(points, i - 1), segLength(points[i], points[i - 1]))

\* Fault model: a while loop that measures the ratio from prev, not from curr.
RECURSIVE resampleWhileFromPrev(_, _, _, _, _, _, _)
resampleWhileFromPrev(prev, curr, dist, acc, resampled, segmentLength, numPoints) ==
  IF Ge(acc, segmentLength) /\ Len(resampled) < numPoints
  THEN LET ratio    == Div(Sub(acc, segmentLength), dist)
           newPoint == Pt(Add(prev.x, Mul(ratio, Sub(curr.x, prev.x))),
                          Add(prev.y, Mul(ratio, Sub(curr.y, prev.y))))
       IN  resampleWhileFromPrev(prev, curr, dist, Sub(acc, segmentLength),
                                 Append(resampled, newPoint), segmentLength,
                                 numPoints)
  ELSE <<resampled, acc>>

\* The inner while loop of resamplePoints for the segment prev -> curr:
\* <<resampled, accumulatedLength>> when the loop is left.
RECURSIVE resampleWhile(_, _, _, _, _, _, _)
resampleWhile(prev, curr, dist, acc, resampled, segmentLength, numPoints) ==
  IF Ge(acc, segmentLength) /\ Len(resampled) < numPoints
  THEN LET ratio    == Div(Sub(acc, segmentLength), dist)
           newPoint == Pt(Sub(curr.x, Mul(ratio, Sub(curr.x, prev.x))),
                          Sub(curr.y, Mul(ratio, Sub(curr.y, prev.y))))
       IN  resampleWhile(prev, curr, dist, Sub(acc, segmentLength),
                         Append(resampled, newPoint), segmentLength, numPoints)
  ELSE <<resampled, acc>>

\* The for loop of resamplePoints from index i (1-based: points[i - 1] is
\* prev, points[i] is curr) on.
RECURSIVE resampleFor(_, _, _, _, _, _)
resampleFor(points, i, acc, resampled, segmentLength, numPoints) ==
  IF i > Len(points) THEN resampled
  ELSE LET prev == points[i - 1]
           curr == points[i]
           dist == segLength(curr, prev)
           w    == resampleWhile(prev, curr, dist, Add(acc, dist), resampled,
                                 segmentLength, numPoints)
       IN  resampleFor(points, i + 1, w[2], w[1], segmentLength, numPoints)

\* Fault model: a resamplePoints without its padding loop.
resamplePadSkipped(resampled, last, numPoints) == resampled

\* The padding loop: push the last input point until numPoints are there.
RECURSIVE resamplePad(_, _, _)
resamplePad(resampled, last, numPoints) ==
  IF Len(resampled) < numPoints
  THEN resamplePad(Append(resampled, last), last, numPoints)
  ELSE resampled

\* Fault model: a result array that starts empty.
resampleStartEmpty(points) == <<>>

\* The first element of the result array before the walk.
resampleStart(points) == <<points[1]>>

\* arr.slice(0, n): the first n elements, or all of them if there are fewer
slice(arr, n) == SubSeq(arr, 1, IF n < Len(arr) THEN n ELSE Len(arr))

resamplePoints(points, numPoints) ==
  IF Len(points) = 0 THEN <<>>
  ELSE LET totalLength   == pathLength(points, Len(points))
           segmentLength == Div(totalLength, Num(numPoints - 1))
           walked == resampleFor(points, 2, Zero, resampleStart(points),
                                 segmentLength, numPoints)
           padded == resamplePad(walked, points[Len(points)], numPoints)
       IN  slice(padded, numPoints)

\* ---------------------------------------------------- distance engines
(***************************************************************************)
(* A distance between two points is carried as its square: Math.sqrt is    *)
(* strictly increasing and keeps NaN and +Infinity, so Math.max and        *)
(* Math.min of distances are the square roots of the max and min of the    *)
(* squares.  The value of distanceSq, hausdorffDistance, frechetDistance   *)
(* below is v with: distance = Math.sqrt(v) for a finite v >= 0, and       *)
(* distance = v for NaN, +Infinity and -Infinity (Math.max() of nothing).  *)
(***************************************************************************)
distanceSq(p1, p2) == Add(Sq(Sub(p1.x, p2.x)), Sq(Sub(p1.y, p2.y)))

\* Math.max(...from.map(p1 => Math.min(...to.map(p2 => distance(p1, p2)))))
directional(from, to) ==
  MaxOf([i \in 1..Len(from) |->
           MinOf([j \in 1..Len(to) |-> distanceSq(from[i], to[j])])])

\* Fault model: a one-sided Hausdorff distance.
hausdorffOneSided(points1, points2) == directional(points1, points2)

hausdorffDistance(points1, points2) ==
  Max2(directional(points1, points2), directional(points2, points1))

\* rotateArray(arr, startIndex): the array from index idx on, then its start
rotateArray(arr, startIndex) ==
  IF Len(arr) = 0 THEN arr
  ELSE LET idx == ((startIndex % Len(arr)) + Len(arr)) % Len(arr)
       IN  SubSeq(arr, idx + 1, Len(arr)) \o SubSeq(arr, 1, idx)

\* Math.min(a, b, c)
Min3(a, b, c) == Min2(a, Min2(b, c))

\* Row i (1-based) of the table ca, given the row above (<<>> for the first
\* row) and the cells of this row filled so far.
RECURSIVE frechetRow(_, _, _, _, _)
frechetRow(points1, rotated2, i, above, row) ==
  LET j == Len(row) + 1 IN
  IF j > Len(rotated2) THEN row
  ELSE LET dist == distanceSq(points1[i], rotated2[j])
           cell == IF i = 1 /\ j = 1 THEN dist
                   ELSE IF i > 1 /\ j = 1 THEN Max2(above[1], dist)
                   ELSE IF i = 1 /\ j > 1 THEN Max2(row[j - 1], dist)
                   ELSE Max2(Min3(above[j], above[j - 1], row[j - 1]), dist)
       IN  frechetRow(points1, rotated2, i, above, Append(row, cell))

\* The last row of ca after rows 1..i.
RECURSIVE frechetRows(_, _, _)
frechetRows(points1, rotated2, i) ==
  frechetRow(points1, rotated2, i,
             IF i = 1 THEN <<>> ELSE frechetRows(points1, rotated2, i - 1),
             <<>>)

\* compute(n - 1, m - 1): every cell of ca is a function of the cells above
\* and left of it, so the memoized recursion returns the last cell of the
\* table whatever the order and number of its evaluations.
frechetDistanceWithOffset(points1, points2, offset) ==
  LET rotated2 == rotateArray(points2, offset)
  IN  frechetRows(points1, rotated2, Len(points1))[Len(rotated2)]

\* Fault model: a search that tries every offset.
offsetStepOne(len) == 1

\* Math.max(1, Math.floor(points2.length / 8))
offsetStep(len) == IF len \div 8 > 1 THEN len \div 8 ELSE 1

\* The offsets the for loop visits: 0, step, 2 * step, ... below len.
Offsets(len) == {o \in 0..(len - 1) : o % offsetStep(len) = 0}

RECURSIVE frechetSearch(_, _, _, _)
frechetSearch(points1, points2, offset, minDistance) ==
  IF offset < Len(points2)
  THEN frechetSearch(points1, points2, offset + offsetStep(Len(points2)),
         Min2(minDistance, frechetDistanceWithOffset(points1, points2, offset)))
  ELSE minDistance

\* Fault model: a frechetDistance whose empty-input sentinel is 0.
frechetDistanceZeroSentinel(points1, points2) ==
  IF Len(points1) = 0 \/ Len(points2) = 0 THEN Zero
  ELSE frechetSearch(points1, points2, 0, PosInf)

frechetDistance(points1, points2) ==
  IF Len(points1) = 0 \/ Len(points2) = 0 THEN PosInf
  ELSE frechetSearch(points1, points2, 0, PosInf)

\* while (diff > Math.PI) diff -= 2 * Math.PI
RECURSIVE wrapDown(_)
wrapDown(diff) ==
  IF Gt(diff, MathPI) THEN wrapDown(Sub(diff, Mul(Num(2), MathPI))) ELSE diff

\* while (diff < -Math.PI) diff += 2 * Math.PI
RECURSIVE wrapUp(_)
wrapUp(diff) ==
  IF Lt(diff, Neg(MathPI)) THEN wrapUp(Add(diff, Mul(Num(2), MathPI))) ELSE diff

\* Fault model: a profile that does not close the sequence (no turn at its
\* two ends).
getAnglesOpen(points) ==
  [i \in 1..Len(points) |->
     IF i = 1 \/ i = Len(points) THEN Zero
     ELSE wrapUp(wrapDown(Sub(
            Atan2(Sub(points[i + 1].y, points[i].y),
                  Sub(points[i + 1].x, points[i].x)),
            Atan2(Sub(points[i].y, points[i - 1].y),
                  Sub(points[i].x, points[i - 1].x)))))]

getAngles(points) ==
  [i \in 1..Len(points) |->
     LET len    == Len(points)
         prev   == points[((i - 1 - 1 + len) % len) + 1]
         curr   == points[i]
         next   == points[((i - 1 + 1) % len) + 1]
         angle1 == Atan2(Sub(curr.y, prev.y), Sub(curr.x, prev.x))
         angle2 == Atan2(Sub(next.y, curr.y), Sub(next.x, curr.x))
     IN  wrapUp(wrapDown(Sub(angle2, angle1)))]

\* Math.abs(a)
AbsNum(a) == <<Abs(a[1]), a[2]>>

\* Fault model: the differences summed with their signs.
RECURSIVE angleSumSigned(_, _, _)
angleSumSigned(angles1, angles2, i) ==
  IF i = 0 THEN Zero
  ELSE Add(angleSumSigned(angles1, angles2, i - 1),
           Sub(angles1[i], angles2[i]))

RECURSIVE angleSum(_, _, _)
angleSum(angles1, angles2, i) ==
  IF i = 0 THEN Zero
  ELSE Add(angleSum(angles1, angles2, i - 1),
           AbsNum(Sub(angles1[i], angles2[i])))

turningAngleDistanceWithOffset(points1, points2, offset) ==
  LET angles1  == getAngles(points1)
      rotated2 == rotateArray(points2, offset)
      angles2  == getAngles(rotated2)
      minLen   == IF Len(angles1) < Len(angles2) THEN Len(angles1)
                  ELSE Len(angles2)
  IN  Div(angleSum(angles1, angles2, minLen), Num(minLen))

RECURSIVE turningAngleSearch(_, _, _, _)
turningAngleSearch(points1, points2, offset, minDistance) ==
  IF offset < Len(points2)
  THEN turningAngleSearch(points1, points2,
         offset + offsetStep(Len(points2)),
         Min2(minDistance,
              turningAngleDistanceWithOffset(points1, points2, offset)))
  ELSE minDistance

turningAngleDistance(points1, points2) ==
  IF Len(points1) = 0 \/ Len(points2) = 0 THEN PosInf
  ELSE turningAngleSearch(points1, points2, 0, PosInf)

\* ------------------------------------------------------------------ scorer
(***************************************************************************)
(* A similarity is either an exactly known number, Exact(v), or            *)
(* 100 * Math.exp(-k * d) for a finite distance d > 0, Decay(k, v, unit),  *)
(* which lies strictly between 0 and 100.  v carries d as the engines do:  *)
(* unit "sqrt" means d = Math.sqrt(v), unit "angle" means d = v * pi/18000 *)
(* radians.                                                                *)
(***************************************************************************)
Exact(v) == [exact |-> TRUE, val |-> v]

Decay(k, v, unit) == [exact |-> FALSE, k |-> k, val |-> v, unit |-> unit]

\* 100 * Math.exp(-distance * k)
expDecay(distance, k, unit) ==
  IF IsNaN(distance) THEN Exact(NaN)
  ELSE IF distance = PosInf THEN Exact(Zero)
  ELSE IF distance = NegInf THEN Exact(PosInf)
  ELSE IF distance = Zero THEN Exact(Num(100))
  ELSE Decay(k, distance, unit)

\* Math.max(0, Math.min(100, similarity))
clamp(similarity) ==
  IF similarity.exact
  THEN Exact(Max2(Zero, Min2(Num(100), similarity.val)))
  ELSE IF Lt(similarity.val, Zero) THEN Exact(Num(100))
  ELSE similarity

\* The decay constants of the two builds.
hausdorffK(build) == IF build = "pca" THEN 8 ELSE 3
frechetK(build)   == IF build = "pca" THEN 10 ELSE 4
turningAngleK     == 2

\* ------------------------------------------------------------------ bounds

\* Input coordinates are the integers 0..MaxCoord.
MaxCoord == 1

\* The longest point sequence enumerated over the grid.
MaxLen == 2

\* numSamples of matchShape.  The source fixes it to 64; the model runs the
\* same pipeline on NumSamples points.
NumSamples == 4

P(x, y) == Pt(Num(x), Num(y))

Grid == {P(x, y) : x \in 0..MaxCoord, y \in 0..MaxCoord}

\* Every segment of the path has a rational length (Sqrt is exact on it).
RationalPath(s) ==
  \A i \in 2..Len(s) :
     IsSquare((s[i].x[1] - s[i - 1].x[1]) * (s[i].x[1] - s[i - 1].x[1])
            + (s[i].y[1] - s[i - 1].y[1]) * (s[i].y[1] - s[i - 1].y[1]))

\* The point sequences of at most maxLen grid points: the empty sequence,
\* single points, coincident points, lines, corners, loops.
Paths(maxLen) ==
  {s \in UNION {[1..k -> Grid] : k \in 0..maxLen} : RationalPath(s)}

\* The principal axis of the shape is a coordinate axis (cxy = 0): the PCA
\* build then rotates by a multiple of a quarter turn, which Cos and Sin
\* give exactly.
AxisAligned(points) ==
  Len(points) < 2 \/ covariance(points).cxy = Zero

\* Candidate layouts: none, one point, coincident points, a line, a corner,
\* an open and a closed square.
Catalog ==
  { <<>>,
    <<P(1, 1)>>,
    <<P(1, 1), P(1, 1)>>,
    <<P(0, 0), P(2, 0)>>,
    <<P(0, 0), P(2, 0), P(2, 1)>>,
    <<P(0, 0), P(1, 0), P(1, 1), P(0, 1)>>,
    <<P(0, 0), P(1, 0), P(1, 1), P(0, 1), P(0, 0)>> }

\* Translations move by -MaxShift..MaxShift along each axis.
MaxShift == 1

\* Scale factors are the fractions p/q with p, q in 1..MaxScale.
MaxScale == 2

Shifts == {P(x, y) : x \in (-MaxShift)..MaxShift, y \in (-MaxShift)..MaxShift}

Scales == {Q(p, q) : p \in 1..MaxScale, q \in 1..MaxScale}

\* The longest candidate list handed to match.
MaxCandidates == 2

\* The sample count of the line-against-circle scenario: the largest the
\* evaluation of the engines at hand allows, for the 64 of the source.
ScenarioSamples == 16

\* The point sequences a call is made on.
Inputs == Paths(MaxLen) \cup Catalog

\* export type MatchAlgorithm
Algorithms == {"hausdorff", "frechet", "turning-angle"}

\* What a caller can pass at run time: the type is erased, any string goes.
Selectors == Algorithms \cup {"dtw"}

Builds == {"bbox", "pca"}

\* ------------------------------------------------------------------- state

VARIABLES
  build,    \* which build of the matching module is loaded
  call,     \* the function being executed
  args,     \* its arguments
  pc,       \* where its execution stands
  locals,   \* its local variables
  ret       \* its completion: [threw, value], once pc = "done"

vars == <<build, call, args, pc, locals, ret>>

NoRet == [threw |-> FALSE, value |-> <<>>]

Return(v) == [threw |-> FALSE, value |-> v]

Throw(e) == [threw |-> TRUE, value |-> e]

\* ------------------------------------------------------------- matchShape

\* const numSamples, normalized1, normalized2, resampled1, resampled2, distance
MatchLocals(numSamples) ==
  [numSamples |-> numSamples, normalized1 |-> <<>>, normalized2 |-> <<>>,
   resampled1 |-> <<>>, resampled2 |-> <<>>, distance |-> NaN]

InitMatch ==
  /\ build \in Builds
  /\ call = "matchShape"
  /\ \E drawn \in Inputs :
       \E circuit \in Catalog \cup {drawn} :
         \E algorithm \in Selectors :
           /\ build = "pca" => AxisAligned(drawn) /\ AxisAligned(circuit)
           /\ args = [drawnPoints |-> drawn, circuitPoints |-> circuit,
                      algorithm |-> algorithm]
  /\ pc = "start"
  /\ locals = MatchLocals(NumSamples)
  /\ ret = NoRet

\* const normalized1 = ..., const normalized2 = ...
MatchNormalize ==
  /\ call = "matchShape" /\ pc = "start"
  /\ locals' = [locals EXCEPT
                  !.normalized1 = normalizePoints(build, args.drawnPoints),
                  !.normalized2 = normalizePoints(build, args.circuitPoints)]
  /\ pc' = "normalized"
  /\ UNCHANGED <<build, call, args, ret>>

\* const resampled1 = ..., const resampled2 = ...
MatchResample ==
  /\ call = "matchShape" /\ pc = "normalized"
  /\ locals' = [locals EXCEPT
                  !.resampled1 = resamplePoints(locals.normalized1,
                                                locals.numSamples),
                  !.resampled2 = resamplePoints(locals.normalized2,
                                                locals.numSamples)]
  /\ pc' = "resampled"
  /\ UNCHANGED <<build, call, args, ret>>

\* Fault model: a default case that throws.
matchDefaultThrows == Throw("unknown algorithm")

\* What the switch does on an algorithm outside the three cases.
matchDefault == Return(Exact(Zero))

\* The switch statement: <<distance, completion>>.
matchSwitch(algorithm, resampled1, resampled2, bld) ==
  CASE algorithm = "hausdorff" ->
         LET distance == hausdorffDistance(resampled1, resampled2)
         IN  <<distance,
               Return(clamp(expDecay(distance, hausdorffK(bld), "sqrt")))>>
    [] algorithm = "frechet" ->
         LET distance == frechetDistance(resampled1, resampled2)
         IN  <<distance,
               Return(clamp(expDecay(distance, frechetK(bld), "sqrt")))>>
    [] algorithm = "turning-angle" ->
         LET distance == turningAngleDistance(resampled1, resampled2)
         IN  <<distance,
               Return(clamp(expDecay(distance, turningAngleK, "angle")))>>
    [] OTHER -> <<NaN, matchDefault>>

MatchScore ==
  /\ call = "matchShape" /\ pc = "resampled"
  /\ LET r == matchSwitch(args.algorithm, locals.resampled1,
                          locals.resampled2, build)
     IN  /\ locals' = [locals EXCEPT !.distance = r[1]]
         /\ ret' = r[2]
  /\ pc' = "done"
  /\ UNCHANGED <<build, call, args>>

NextMatch == MatchNormalize \/ MatchResample \/ MatchScore

Spec == InitMatch /\ [][NextMatch]_vars

\* The whole call as a function of its arguments.
matchShape(bld, drawnPoints, circuitPoints, algorithm) ==
  matchSwitch(algorithm,
              resamplePoints(normalizePoints(bld, drawnPoints), NumSamples),
              resamplePoints(normalizePoints(bld, circuitPoints), NumSamples),
              bld)[2]

MatchDone == call = "matchShape" /\ pc = "done"

\* 0 <= score <= 100.  A Decay score is 100 * Math.exp(-k * d) with a finite
\* d > 0, which is a number between 0 and 100.
InRange(score) ==
  IF score.exact THEN Le(Zero, score.val) /\ Le(score.val, Num(100))
  ELSE IsFinite(score.val) /\ Gt(score.val, Zero)

\* score >= 99.  100 * Math.exp(-k * d) >= 99 iff k * d <= -ln(0.99) =
\* 0.0100503...: for d = Math.sqrt(v) iff k * k * v <= 0.000101009..., for
\* d = v * pi / 18000 iff k * v <= 57.58...
AtLeast99(score) ==
  IF score.exact THEN Ge(score.val, Num(99))
  ELSE IF score.unit = "sqrt"
       THEN Le(Mul(Num(score.k * score.k), score.val), Q(1, 9901))
       ELSE Le(Mul(Num(score.k), score.val), Q(5758, 100))

\* C1: for every pair of point sequences with finite coordinates (empty,
\* single-point and all-coincident ones included) and each of the three
\* algorithms, matchShape returns a number s with 0 <= s <= 100, never NaN.
C1_ScoreInRange ==
  MatchDone /\ args.algorithm \in Algorithms
    => ~ret.threw /\ InRange(ret.value)

\* C2: for every point sequence S and every algorithm,
\* matchShape(S, S, algorithm) >= 99.
C2_SelfMatch ==
  MatchDone /\ args.algorithm \in Algorithms
            /\ args.drawnPoints = args.circuitPoints
    => ~ret.threw /\ AtLeast99(ret.value)

\* C3: with an empty drawn sequence and a non-empty candidate, matchShape
\* with frechet or turning-angle returns exactly 0 and does not throw.
C3_EmptyDrawnScoresZero ==
  MatchDone /\ args.algorithm \in {"frechet", "turning-angle"}
            /\ args.drawnPoints = <<>> /\ args.circuitPoints # <<>>
    => ret = Return(Exact(Zero))

\* The Frechet engine has answered its sentinel for an empty drawing against
\* a candidate of several points, and the score is 0.
C3_Witness ==
  /\ MatchDone
  /\ args.algorithm = "frechet"
  /\ args.drawnPoints = <<>>
  /\ Len(args.circuitPoints) >= 3
  /\ locals.resampled1 = <<>>
  /\ Len(locals.resampled2) = NumSamples
  /\ locals.distance = PosInf
  /\ ret = Return(Exact(Zero))

ResampleLocals == [totalLength |-> Zero, segmentLength |-> Zero, resampled |-> <<>>]

InitResample ==
  /\ build \in Builds
  /\ call = "resamplePoints"
  /\ \E points \in Inputs :
       \E numPoints \in 2..NumSamples :
         args = [points |-> points, numPoints |-> numPoints]
  /\ pc = "start"
  /\ locals = ResampleLocals
  /\ ret = NoRet

\* if (points.length === 0) return []
ResampleEmpty ==
  /\ call = "resamplePoints" /\ pc = "start"
  /\ Len(args.points) = 0
  /\ ret' = Return(<<>>)
  /\ pc' = "done"
  /\ UNCHANGED <<build, call, args, locals>>

\* const totalLength, segmentLength, resampled; let accumulatedLength = 0
ResampleMeasure ==
  /\ call = "resamplePoints" /\ pc = "start"
  /\ Len(args.points) > 0
  /\ LET totalLength == pathLength(args.points, Len(args.points))
     IN  locals' = [totalLength   |-> totalLength,
                    segmentLength |-> Div(totalLength, Num(args.numPoints - 1)),
                    resampled     |-> resampleStart(args.points)]
  /\ pc' = "walk"
  /\ UNCHANGED <<build, call, args, ret>>

\* for (let i = 1; i < points.length; i++) { ... while ... }
ResampleWalk ==
  /\ call = "resamplePoints" /\ pc = "walk"
  /\ locals' = [locals EXCEPT
                  !.resampled = resampleFor(args.points, 2, Zero,
                                            locals.resampled,
                                            locals.segmentLength,
                                            args.numPoints)]
  /\ pc' = "pad"
  /\ UNCHANGED <<build, call, args, ret>>

\* while (resampled.length < numPoints) ...; return resampled.slice(0, numPoints)
ResamplePadSlice ==
  /\ call = "resamplePoints" /\ pc = "pad"
  /\ LET padded == resamplePad(locals.resampled,
                               args.points[Len(args.points)], args.numPoints)
     IN  /\ locals' = [locals EXCEPT !.resampled = padded]
         /\ ret' = Return(slice(padded, args.numPoints))
  /\ pc' = "done"
  /\ UNCHANGED <<build, call, args>>

NextResample ==
  ResampleEmpty \/ ResampleMeasure \/ ResampleWalk \/ ResamplePadSlice

SpecResample == InitResample /\ [][NextResample]_vars

\* All the points of the sequence coincide (its bounding box is one point).
Degenerate(points) == \A i \in 1..Len(points) : points[i] = points[1]

ResampleDone == call = "resamplePoints" /\ pc = "done"

\* C7: resamplePoints(S, n) returns exactly n points for every non-empty
\* sequence S and every n >= 2.
C7_ExactlyN ==
  ResampleDone /\ Len(args.points) > 0
    => ~ret.threw /\ Len(ret.value) = args.numPoints

\* A corner of three points resampled to four.
C7_Witness ==
  /\ ResampleDone
  /\ ~Degenerate(args.points)
  /\ Len(args.points) = 3
  /\ args.numPoints = 4
  /\ Len(ret.value) = 4

\* C8: for every non-degenerate S and n >= 2 the first point of
\* resamplePoints(S, n) is the first point of S.
C8_FirstPoint ==
  ResampleDone /\ ~Degenerate(args.points)
    => ~ret.threw /\ ret.value[1] = args.points[1]

\* A non-degenerate path whose second resampled point is a new, interpolated
\* point: the first one is the only one copied from the input's start.
C8_Witness ==
  /\ ResampleDone
  /\ ~Degenerate(args.points)
  /\ ret.value[1] = args.points[1]
  /\ \A i \in 1..Len(args.points) : ret.value[2] # args.points[i]

\* C9: for a single point or an input whose points all coincide,
\* resamplePoints(S, n) is the input point repeated n times.
C9_RepeatsInputPoint ==
  ResampleDone /\ Len(args.points) > 0 /\ Degenerate(args.points)
    => /\ Len(ret.value) = args.numPoints
       /\ \A i \in 1..Len(ret.value) : ret.value[i] = args.points[1]

\* --------------------------------------------------------- normalizePoints

\* T + c * S
Moved(points, shift, scale) ==
  [i \in 1..Len(points) |->
     Pt(Add(shift.x, Mul(scale, points[i].x)),
        Add(shift.y, Mul(scale, points[i].y)))]

NormalizeLocals == [base |-> <<>>, moved |-> <<>>]

\* normalizePoints is called on S and on T + c * S.
InitNormalize ==
  /\ build \in Builds
  /\ call = "normalizePoints"
  /\ \E points \in Inputs :
       \E shift \in Shifts :
         \E scale \in Scales :
           /\ build = "pca" => AxisAligned(points)
           /\ args = [points |-> points, shift |-> shift, scale |-> scale]
  /\ pc = "start"
  /\ locals = NormalizeLocals
  /\ ret = NoRet

\* normalizePoints(S)
NormalizeBase ==
  /\ call = "normalizePoints" /\ pc = "start"
  /\ locals' = [locals EXCEPT !.base = normalizePoints(build, args.points)]
  /\ pc' = "moved"
  /\ UNCHANGED <<build, call, args, ret>>

\* normalizePoints(T + c * S)
NormalizeMoved ==
  /\ call = "normalizePoints" /\ pc = "moved"
  /\ LET out == normalizePoints(build,
                                Moved(args.points, args.shift, args.scale))
     IN  /\ locals' = [locals EXCEPT !.moved = out]
         /\ ret' = Return(out)
  /\ pc' = "done"
  /\ UNCHANGED <<build, call, args>>

NextNormalize == NormalizeBase \/ NormalizeMoved

SpecNormalize == InitNormalize /\ [][NextNormalize]_vars

NormalizeDone == call = "normalizePoints" /\ pc = "done"

\* C6: for every non-degenerate S (bounding box not a single point), every
\* translation T and every scale factor c > 0, normalizePoints(T + c * S)
\* equals normalizePoints(S) point for point.
C6_TranslationScaleInvariant ==
  NormalizeDone /\ ~Degenerate(args.points)
    => ~ret.threw /\ ret.value = locals.base

\* A corner or a loop, moved and rescaled, normalizes to the same points as
\* the original, which are not the points handed in.
C6_Witness ==
  /\ NormalizeDone
  /\ build = "bbox"
  /\ ~Degenerate(args.points)
  /\ Len(args.points) >= 3
  /\ args.shift = P(1, -1)
  /\ args.scale = Q(1, 2)
  /\ ret.value = locals.base
  /\ ret.value # args.points
  /\ ret.value # Moved(args.points, args.shift, args.scale)

\* ------------------------------------------------------- hausdorffDistance

\* Every sequence of at most maxLen grid points, in any order.
Clouds(maxLen) == UNION {[1..k -> Grid] : k \in 0..maxLen}

\* The exchanges of two positions of a sequence of n points; <<0, 0>> leaves
\* the sequence as it is.  They generate every reordering.
Swaps(n) == {<<0, 0>>} \cup {w \in (1..n) \X (1..n) : w[1] < w[2]}

Swapped(points, w) ==
  IF w = <<0, 0>> THEN points
  ELSE [points EXCEPT ![w[1]] = points[w[2]], ![w[2]] = points[w[1]]]

HausdorffLocals == [forward |-> NaN, backward |-> NaN, reordered |-> NaN]

\* hausdorffDistance is called on (A, B), on (B, A) and on reorderings of A
\* and of B.
InitHausdorff ==
  /\ build = "pca"    \* the function is the same in both builds
  /\ call = "hausdorffDistance"
  /\ \E points1 \in Clouds(MaxLen) :
       \E points2 \in Catalog :
         \E swap1 \in Swaps(Len(points1)) :
           \E swap2 \in Swaps(Len(points2)) :
             args = [points1 |-> points1, points2 |-> points2,
                     swap1 |-> swap1, swap2 |-> swap2]
  /\ pc = "start"
  /\ locals = HausdorffLocals
  /\ ret = NoRet

\* hausdorffDistance(A, B)
HausdorffForward ==
  /\ call = "hausdorffDistance" /\ pc = "start"
  /\ locals' = [locals EXCEPT
                  !.forward = hausdorffDistance(args.points1, args.points2)]
  /\ pc' = "forward"
  /\ UNCHANGED <<build, call, args, ret>>

\* hausdorffDistance(B, A)
HausdorffBackward ==
  /\ call = "hausdorffDistance" /\ pc = "forward"
  /\ locals' = [locals EXCEPT
                  !.backward = hausdorffDistance(args.points2, args.points1)]
  /\ pc' = "backward"
  /\ UNCHANGED <<build, call, args, ret>>

\* hausdorffDistance(A reordered, B reordered)
HausdorffReordered ==
  /\ call = "hausdorffDistance" /\ pc = "backward"
  /\ LET d == hausdorffDistance(Swapped(args.points1, args.swap1),
                                Swapped(args.points2, args.swap2))
     IN  /\ locals' = [locals EXCEPT !.reordered = d]
         /\ ret' = Return(d)
  /\ pc' = "done"
  /\ UNCHANGED <<build, call, args>>

NextHausdorff == HausdorffForward \/ HausdorffBackward \/ HausdorffReordered

SpecHausdorff == InitHausdorff /\ [][NextHausdorff]_vars

HausdorffDone == call = "hausdorffDistance" /\ pc = "done"

\* C10: hausdorffDistance(A, B) = hausdorffDistance(B, A) for all non-empty
\* point sequences A and B, and the value does not depend on the order of
\* the points inside A or inside B.
C10_SymmetricOrderFree ==
  HausdorffDone /\ args.points1 # <<>> /\ args.points2 # <<>>
    => /\ locals.backward = locals.forward
       /\ locals.reordered = locals.forward

\* Two sequences at a positive distance whose two directed distances differ,
\* both reordered.
C10_Witness ==
  /\ HausdorffDone
  /\ args.swap1 # <<0, 0>> /\ args.swap2 # <<0, 0>>
  /\ Swapped(args.points1, args.swap1) # args.points1
  /\ Swapped(args.points2, args.swap2) # args.points2
  /\ directional(args.points1, args.points2)
       # directional(args.points2, args.points1)
  /\ Gt(locals.forward, Zero)
  /\ locals.backward = locals.forward
  /\ locals.reordered = locals.forward

\* ----------------------------------------------- frechetDistanceWithOffset
(***************************************************************************)
(* The memoized recursion, call by call.  A frame of the stack is one call *)
(* compute(i, j) (i, j count from 0 as in the source): stage "enter" is    *)
(* the memo test, stage "body" the rest, and got holds the values its      *)
(* recursive calls have returned so far.  evals[i][j] counts how often the *)
(* body of compute(i, j) has been entered.                                 *)
(***************************************************************************)

Frame(i, j) == [i |-> i, j |-> j, stage |-> "enter", got |-> <<>>]

\* The recursive calls of compute(i, j), in the order they are made.
callees(i, j) ==
  IF i = 0 /\ j = 0 THEN <<>>
  ELSE IF i > 0 /\ j = 0 THEN <<Frame(i - 1, 0)>>
  ELSE IF i = 0 /\ j > 0 THEN <<Frame(0, j - 1)>>
  ELSE <<Frame(i - 1, j), Frame(i - 1, j - 1), Frame(i, j - 1)>>

\* Fault model: a cell that looks at the first of its neighbours only.
cellValueFirstOnly(i, j, got, dist) ==
  IF i = 0 /\ j = 0 THEN dist ELSE Max2(got[1], dist)

\* What compute(i, j) stores in ca[i][j].
cellValue(i, j, got, dist) ==
  IF i = 0 /\ j = 0 THEN dist
  ELSE IF Len(got) = 1 THEN Max2(got[1], dist)
  ELSE Max2(Min3(got[1], got[2], got[3]), dist)

FrechetLocals == [rotated2 |-> <<>>, ca |-> <<>>, evals |-> <<>>, stack |-> <<>>]

\* The two sequences are what matchShape hands to the engine, and the offset
\* is one that the loop of frechetDistance tries.
InitFrechet ==
  /\ build \in Builds
  /\ call = "frechetDistanceWithOffset"
  /\ \E drawn \in Catalog \ {<<>>} :
       \E circuit \in Catalog \ {<<>>} :
         \E offset \in Offsets(NumSamples) :
           /\ build = "pca" => AxisAligned(drawn) /\ AxisAligned(circuit)
           /\ args = [points1 |-> resamplePoints(normalizePoints(build, drawn),
                                                 NumSamples),
                      points2 |-> resamplePoints(normalizePoints(build, circuit),
                                                 NumSamples),
                      offset  |-> offset]
  /\ pc = "start"
  /\ locals = FrechetLocals
  /\ ret = NoRet

\* const rotated2, n, m, ca; return compute(n - 1, m - 1)
FrechetSetup ==
  /\ call = "frechetDistanceWithOffset" /\ pc = "start"
  /\ LET n == Len(args.points1)
         m == Len(args.points2)
     IN  locals' = [rotated2 |-> rotateArray(args.points2, args.offset),
                    ca       |-> [i \in 0..(n - 1) |-> [j \in 0..(m - 1) |-> Num(-1)]],
                    evals    |-> [i \in 0..(n - 1) |-> [j \in 0..(m - 1) |-> 0]],
                    stack    |-> <<Frame(n - 1, m - 1)>>]
  /\ pc' = "compute"
  /\ UNCHANGED <<build, call, args, ret>>

Top == locals.stack[Len(locals.stack)]

\* The call on top of the stack returns v: to its caller, or to
\* frechetDistanceWithOffset, which returns it in turn.
Returning(v, ca, evals) ==
  LET rest == SubSeq(locals.stack, 1, Len(locals.stack) - 1) IN
  IF rest = <<>>
  THEN /\ locals' = [locals EXCEPT !.stack = rest, !.ca = ca, !.evals = evals]
       /\ ret' = Return(v)
       /\ pc' = "done"
  ELSE /\ locals' = [locals EXCEPT
                       !.stack = [rest EXCEPT ![Len(rest)].got = Append(@, v)],
                       !.ca = ca, !.evals = evals]
       /\ UNCHANGED <<ret, pc>>

\* if (ca[i][j] > -1) return ca[i][j]
FrechetMemoHit ==
  /\ call = "frechetDistanceWithOffset" /\ pc = "compute"
  /\ Top.stage = "enter"
  /\ Gt(locals.ca[Top.i][Top.j], Num(-1))
  /\ Returning(locals.ca[Top.i][Top.j], locals.ca, locals.evals)
  /\ UNCHANGED <<build, call, args>>

\* The memo test fails: the cell is evaluated.
FrechetMemoMiss ==
  /\ call = "frechetDistanceWithOffset" /\ pc = "compute"
  /\ Top.stage = "enter"
  /\ ~Gt(locals.ca[Top.i][Top.j], Num(-1))
  /\ locals' = [locals EXCEPT
                  !.stack[Len(locals.stack)].stage = "body",
                  !.evals[Top.i][Top.j] = @ + 1]
  /\ UNCHANGED <<build, call, args, pc, ret>>

\* The next recursive call of the body.
FrechetDescend ==
  /\ call = "frechetDistanceWithOffset" /\ pc = "compute"
  /\ Top.stage = "body"
  /\ Len(Top.got) < Len(callees(Top.i, Top.j))
  /\ locals' = [locals EXCEPT
                  !.stack = Append(@, callees(Top.i, Top.j)[Len(Top.got) + 1])]
  /\ UNCHANGED <<build, call, args, pc, ret>>

\* ca[i][j] = ...; return ca[i][j]
FrechetStore ==
  /\ call = "frechetDistanceWithOffset" /\ pc = "compute"
  /\ Top.stage = "body"
  /\ Len(Top.got) = Len(callees(Top.i, Top.j))
  /\ LET dist == distanceSq(args.points1[Top.i + 1],
                            locals.rotated2[Top.j + 1])
         v    == cellValue(Top.i, Top.j, Top.got, dist)
     IN  Returning(v, [locals.ca EXCEPT ![Top.i][Top.j] = v], locals.evals)
  /\ UNCHANGED <<build, call, args>>

NextFrechet ==
  \/ FrechetSetup
  \/ FrechetMemoHit
  \/ FrechetMemoMiss
  \/ FrechetDescend
  \/ FrechetStore

SpecFrechet == InitFrechet /\ [][NextFrechet]_vars

FrechetRunning == call = "frechetDistanceWithOffset" /\ pc = "compute"

FrechetDone == call = "frechetDistanceWithOffset" /\ pc = "done"

\* The recursion returns the last cell of the table filled row by row.
FrechetAgrees ==
  FrechetDone
    => ret.value = frechetDistanceWithOffset(args.points1, args.points2,
                                             args.offset)

\* C5: a matchShape call completes, each cell (i, j) of the Frechet table
\* being evaluated at most once per offset trial thanks to the memo table.
C5_EachCellOnce ==
  FrechetRunning \/ FrechetDone
    => \A i \in DOMAIN locals.evals :
         \A j \in DOMAIN locals.evals[i] : locals.evals[i][j] <= 1

\* ------------------------------------------------------------------- match
(***************************************************************************)
(* The matcher facade: one MatchResult per candidate, then a stable sort   *)
(* by descending similarity.  The scores come from matchShape; within one  *)
(* call they share the algorithm, so two Decay scores compare as their     *)
(* distances do, and a Decay score lies strictly between 0 and 100.        *)
(***************************************************************************)

\* a > b, false when either is NaN
ScoreGt(a, b) ==
  CASE a.exact /\ b.exact   -> Gt(a.val, b.val)
    [] a.exact /\ ~b.exact  -> Ge(a.val, Num(100))
    [] ~a.exact /\ b.exact  -> Le(b.val, Zero)
    [] ~a.exact /\ ~b.exact -> Lt(a.val, b.val)

\* a === b as numbers, false when either is NaN
ScoreEq(a, b) == a = b /\ ~(a.exact /\ IsNaN(a.val))

\* export interface MatchResult
MatchResult(circuitId, similarity) ==
  [circuitId |-> circuitId, similarity |-> similarity]

\* candidates.map(c => ({circuitId, similarity: matchShape(drawn, c, algorithm)}))
matchAll(bld, drawn, candidates, algorithm) ==
  [i \in 1..Len(candidates) |->
     MatchResult(i, matchShape(bld, drawn, candidates[i], algorithm).value)]

\* One step of the stable sort: r goes before the first element it is
\* strictly greater than, after everything else.
RECURSIVE insertResult(_, _)
insertResult(sorted, r) ==
  IF sorted = <<>> THEN <<r>>
  ELSE IF ScoreGt(r.similarity, Head(sorted).similarity) THEN <<r>> \o sorted
  ELSE <<Head(sorted)>> \o insertResult(Tail(sorted), r)

\* Stable sort by descending similarity of the first n results.
RECURSIVE sortResults(_, _)
sortResults(results, n) ==
  IF n = 0 THEN <<>>
  ELSE insertResult(sortResults(results, n - 1), results[n])

FacadeLocals == [results |-> <<>>]

CandidateLists == UNION {[1..k -> Catalog] : k \in 0..MaxCandidates}

InitFacade ==
  /\ build \in Builds
  /\ call = "match"
  /\ \E drawn \in Catalog :
       \E candidates \in CandidateLists :
         \E algorithm \in Algorithms :
           /\ build = "pca" =>
                /\ AxisAligned(drawn)
                /\ \A i \in 1..Len(candidates) : AxisAligned(candidates[i])
           /\ args = [drawn |-> drawn, candidates |-> candidates,
                      algorithm |-> algorithm]
  /\ pc = "start"
  /\ locals = FacadeLocals
  /\ ret = NoRet

\* A MatchResult per candidate.
FacadeScore ==
  /\ call = "match" /\ pc = "start"
  /\ locals' = [locals EXCEPT
                  !.results = matchAll(build, args.drawn, args.candidates,
                                       args.algorithm)]
  /\ pc' = "scored"
  /\ UNCHANGED <<build, call, args, ret>>

\* The final stable sort.
FacadeSort ==
  /\ call = "match" /\ pc = "scored"
  /\ ret' = Return(sortResults(locals.results, Len(locals.results)))
  /\ pc' = "done"
  /\ UNCHANGED <<build, call, args, locals>>

NextFacade == FacadeScore \/ FacadeSort

SpecFacade == InitFacade /\ [][NextFacade]_vars

FacadeDone == call = "match" /\ pc = "done"

\* C11: match returns one MatchResult per candidate, ordered by descending
\* similarity, candidates of equal similarity in their input order.
C11_RankedStable ==
  FacadeDone =>
    /\ Len(ret.value) = Len(args.candidates)
    /\ {ret.value[i].circuitId : i \in 1..Len(ret.value)}
         = 1..Len(args.candidates)
    /\ \A i, j \in 1..Len(ret.value) :
         i < j =>
           /\ \/ ScoreGt(ret.value[i].similarity, ret.value[j].similarity)
              \/ ScoreEq(ret.value[i].similarity, ret.value[j].similarity)
           /\ ScoreEq(ret.value[i].similarity, ret.value[j].similarity)
                => ret.value[i].circuitId < ret.value[j].circuitId

\* ------------------------------------------------- arrays and their identity
(***************************************************************************)
(* To tell an array from an equal copy of it, the arrays live in a heap: a *)
(* sequence of arrays, an array reference being an index into it.  The     *)
(* caller's drawn array is reference 1, its candidate array reference 2.   *)
(* An operation takes a heap and references and gives <<heap, result>>.    *)
(* Point objects are never assigned to in the module (no p.x = ...), so an *)
(* array is modelled as the sequence of its points' values.                *)
(***************************************************************************)

\* [], [...], arr.map(...), arr.slice(...): a new array
Alloc(heap, value) == <<Append(heap, value), Len(heap) + 1>>

\* alignCircuitToDrawing(circuitPoints, drawnPoints), as a value
\* Fault model: the scaled candidate left at the corner of the drawing's box.
alignUncentred(circuitPoints, drawnPoints) ==
  IF Len(circuitPoints) = 0 \/ Len(drawnPoints) = 0 THEN circuitPoints
  ELSE LET drawnBBox   == getBoundingBox(drawnPoints)
           circuitBBox == getBoundingBox(circuitPoints)
           scale == Min2(Div(drawnBBox.width, circuitBBox.width),
                         Div(drawnBBox.height, circuitBBox.height))
       IN  [i \in 1..Len(circuitPoints) |->
              Pt(Add(drawnBBox.minX,
                     Mul(Sub(circuitPoints[i].x, circuitBBox.minX), scale)),
                 Add(drawnBBox.minY,
                     Mul(Sub(circuitPoints[i].y, circuitBBox.minY), scale)))]

alignCircuitToDrawing(circuitPoints, drawnPoints) ==
  IF Len(circuitPoints) = 0 \/ Len(drawnPoints) = 0 THEN circuitPoints
  ELSE LET drawnBBox   == getBoundingBox(drawnPoints)
           circuitBBox == getBoundingBox(circuitPoints)
           scaleX == Div(drawnBBox.width, circuitBBox.width)
           scaleY == Div(drawnBBox.height, circuitBBox.height)
           scale  == Min2(scaleX, scaleY)
       IN  [i \in 1..Len(circuitPoints) |->
              Pt(Add(Add(drawnBBox.minX,
                         Mul(Sub(circuitPoints[i].x, circuitBBox.minX), scale)),
                     Div(Sub(drawnBBox.width, Mul(circuitBBox.width, scale)),
                         Num(2))),
                 Add(Add(drawnBBox.minY,
                         Mul(Sub(circuitPoints[i].y, circuitBBox.minY), scale)),
                     Div(Sub(drawnBBox.height, Mul(circuitBBox.height, scale)),
                         Num(2))))]

\* normalizePoints on the array p: the bounding-box build returns the input
\* array itself when the scale is 0, every other path builds a new array.
normalizePointsRef(bld, heap, p) ==
  IF /\ bld = "bbox"
     /\ Len(heap[p]) # 0
     /\ LET bbox == getBoundingBox(heap[p])
        IN  Max2(bbox.width, bbox.height) = Zero
  THEN <<heap, p>>
  ELSE Alloc(heap, normalizePoints(bld, heap[p]))

\* Fault model: the result array of resamplePoints is the input array.
resampledAliased(heap, p) == <<heap, p>>

\* const resampled: Point[] = [points[0]]
resampledArray(heap, p) == Alloc(heap, resampleStart(heap[p]))

\* resamplePoints on the array p: the pushes go to the array resampled, the
\* result is a slice of it.
resamplePointsRef(heap, p, numPoints) ==
  IF Len(heap[p]) = 0 THEN Alloc(heap, <<>>)
  ELSE LET a      == resampledArray(heap, p)
           r      == a[2]
           points == a[1][p]
           segmentLength ==
             Div(pathLength(points, Len(points)), Num(numPoints - 1))
           walked == resampleFor(points, 2, Zero, a[1][r], segmentLength,
                                 numPoints)
           pushed == [a[1] EXCEPT
                        ![r] = resamplePad(walked, points[Len(points)],
                                           numPoints)]
       IN  Alloc(pushed, slice(pushed[r], numPoints))

\* rotateArray on the array p: the input array itself when it is empty
rotateArrayRef(heap, p, startIndex) ==
  IF Len(heap[p]) = 0 THEN <<heap, p>>
  ELSE Alloc(heap, rotateArray(heap[p], startIndex))

\* alignCircuitToDrawing on the arrays c and d: the candidate array itself
\* when one of the two is empty
alignCircuitToDrawingRef(heap, c, d) ==
  IF Len(heap[c]) = 0 \/ Len(heap[d]) = 0 THEN <<heap, c>>
  ELSE Alloc(heap, alignCircuitToDrawing(heap[c], heap[d]))

\* The arrays rotateArray makes for the offsets from offset on.
RECURSIVE offsetArrays(_, _, _)
offsetArrays(heap, p, offset) ==
  IF offset < Len(heap[p])
  THEN offsetArrays(rotateArrayRef(heap, p, offset)[1], p,
                    offset + offsetStep(Len(heap[p])))
  ELSE heap

\* The heap after the engine has run on the arrays a1 and a2: hausdorff
\* makes no array, the two searches make one per offset unless they return
\* on an empty array.
engineArrays(heap, algorithm, a1, a2) ==
  IF /\ algorithm \in {"frechet", "turning-angle"}
     /\ Len(heap[a1]) # 0 /\ Len(heap[a2]) # 0
  THEN offsetArrays(heap, a2, 0)
  ELSE heap

\* One call of an operation of the engine on the caller's two arrays.
Operations ==
  {"normalizePoints", "resamplePoints", "rotateArray",
   "alignCircuitToDrawing", "matchShape"}

\* refs holds normalized1, normalized2, resampled1, resampled2 of matchShape.
ArrayLocals(drawn, circuit) ==
  [heap |-> <<drawn, circuit>>, result |-> 0, refs |-> <<>>]

InitArrays ==
  /\ build \in Builds
  /\ call \in Operations
  /\ \E drawn \in IF call = "matchShape" THEN Catalog ELSE Inputs :
       \E circuit \in IF call \in {"alignCircuitToDrawing", "matchShape"}
                      THEN Catalog ELSE {<<>>} :
         \E numPoints \in IF call = "resamplePoints"
                          THEN 2..NumSamples ELSE {2} :
           \E startIndex \in IF call = "rotateArray"
                             THEN (-1)..MaxLen ELSE {0} :
             \E algorithm \in IF call = "matchShape"
                              THEN Algorithms ELSE {"hausdorff"} :
               /\ build = "pca" => AxisAligned(drawn) /\ AxisAligned(circuit)
               /\ args = [drawnPoints |-> drawn, circuitPoints |-> circuit,
                          numPoints |-> numPoints, startIndex |-> startIndex,
                          algorithm |-> algorithm]
               /\ locals = ArrayLocals(drawn, circuit)
  /\ pc = "call"
  /\ ret = NoRet

\* The operation returns the array r, leaving the heap h.
ArrayReturned(r) ==
  /\ locals' = [locals EXCEPT !.heap = r[1], !.result = r[2]]
  /\ ret' = Return(r[1][r[2]])
  /\ pc' = "returned"
  /\ UNCHANGED <<build, call, args>>

ArraysNormalize ==
  /\ call = "normalizePoints" /\ pc = "call"
  /\ ArrayReturned(normalizePointsRef(build, locals.heap, 1))

ArraysResample ==
  /\ call = "resamplePoints" /\ pc = "call"
  /\ ArrayReturned(resamplePointsRef(locals.heap, 1, args.numPoints))

ArraysRotate ==
  /\ call = "rotateArray" /\ pc = "call"
  /\ ArrayReturned(rotateArrayRef(locals.heap, 1, args.startIndex))

ArraysAlign ==
  /\ call = "alignCircuitToDrawing" /\ pc = "call"
  /\ ArrayReturned(alignCircuitToDrawingRef(locals.heap, 2, 1))

\* A statement of matchShape has made the array r, leaving the heap h.
ArrayMade(r, next) ==
  /\ locals' = [locals EXCEPT !.heap = r[1], !.refs = Append(@, r[2])]
  /\ pc' = next
  /\ UNCHANGED <<build, call, args, ret>>

\* const normalized1 = normalizePoints(drawnPoints)
ArraysMatchNormalize1 ==
  /\ call = "matchShape" /\ pc = "call"
  /\ ArrayMade(normalizePointsRef(build, locals.heap, 1), "normalized1")

\* const normalized2 = normalizePoints(circuitPoints)
ArraysMatchNormalize2 ==
  /\ call = "matchShape" /\ pc = "normalized1"
  /\ ArrayMade(normalizePointsRef(build, locals.heap, 2), "normalized2")

\* const resampled1 = resamplePoints(normalized1, numSamples)
ArraysMatchResample1 ==
  /\ call = "matchShape" /\ pc = "normalized2"
  /\ ArrayMade(resamplePointsRef(locals.heap, locals.refs[1], NumSamples),
               "resampled1")

\* const resampled2 = resamplePoints(normalized2, numSamples)
ArraysMatchResample2 ==
  /\ call = "matchShape" /\ pc = "resampled1"
  /\ ArrayMade(resamplePointsRef(locals.heap, locals.refs[2], NumSamples),
               "resampled2")

\* The switch on the algorithm.
ArraysMatchEngine ==
  /\ call = "matchShape" /\ pc = "resampled2"
  /\ locals' = [locals EXCEPT
                  !.heap = engineArrays(@, args.algorithm, locals.refs[3],
                                        locals.refs[4])]
  /\ ret' = matchSwitch(args.algorithm, locals.heap[locals.refs[3]],
                        locals.heap[locals.refs[4]], build)[2]
  /\ pc' = "returned"
  /\ UNCHANGED <<build, call, args>>

NextArrays ==
  \/ ArraysNormalize
  \/ ArraysResample
  \/ ArraysRotate
  \/ ArraysAlign
  \/ ArraysMatchNormalize1
  \/ ArraysMatchNormalize2
  \/ ArraysMatchResample1
  \/ ArraysMatchResample2
  \/ ArraysMatchEngine

SpecArrays == InitArrays /\ [][NextArrays]_vars

ArraysDone == call \in Operations /\ pc = "returned"

\* The caller's two arrays hold what they held before the call.
InputsUnchanged ==
  /\ locals.heap[1] = args.drawnPoints
  /\ locals.heap[2] = args.circuitPoints

\* The cases in which a transform hands back one of its input arrays.
ReturnsItsInput ==
  \/ /\ call = "normalizePoints" /\ build = "bbox"
     /\ args.drawnPoints # <<>> /\ Degenerate(args.drawnPoints)
  \/ call = "rotateArray" /\ args.drawnPoints = <<>>
  \/ /\ call = "alignCircuitToDrawing"
     /\ (args.circuitPoints = <<>> \/ args.drawnPoints = <<>>)

\* C12 as stated: no operation changes the caller's arrays, and every
\* transform returns a newly created array, never an input array.
C12_NoMutationAlwaysFresh ==
  ArraysDone =>
    /\ InputsUnchanged
    /\ call # "matchShape" => locals.result \notin {1, 2}

\* C12 as the code behaves: no operation changes the caller's arrays, and a
\* transform returns a newly created array except that the bounding-box
\* normalizePoints returns its input array when all its points coincide,
\* rotateArray returns its input array when it is empty, and
\* alignCircuitToDrawing returns the candidate array when either array is
\* empty.
C12_NoMutationFreshUnlessTrivial ==
  ArraysDone =>
    /\ InputsUnchanged
    /\ call # "matchShape" =>
         /\ ReturnsItsInput
              => locals.result = (IF call = "alignCircuitToDrawing" THEN 2 ELSE 1)
         /\ ~ReturnsItsInput => locals.result \notin {1, 2}

\* resamplePoints has pushed new points and padding on a path and returned a
\* new array, the path's array being as it was.
C12_Witness ==
  /\ ArraysDone
  /\ call = "resamplePoints"
  /\ Len(args.drawnPoints) = 2
  /\ ~Degenerate(args.drawnPoints)
  /\ args.numPoints = 4
  /\ locals.result \notin {1, 2}
  /\ Len(ret.value) = 4
  /\ locals.heap[1] = args.drawnPoints

\* ------------------------------------------------ a line against a circle
(***************************************************************************)
(* The circle is the polygon of the six points of the circle of radius 25  *)
(* about the origin whose coordinates and mutual distances are whole       *)
(* numbers, closed and run in either direction.                            *)
(* The line is a straight segment between two grid points.                 *)
(***************************************************************************)
CirclePoints ==
  <<P(25, 0), P(7, 24), P(-7, 24), P(-25, 0), P(-7, -24), P(7, -24)>>

Reversed(points) == [i \in 1..Len(points) |-> points[Len(points) + 1 - i]]

\* The closed loop through the six points from the one at index start on.
Loop(start) ==
  LET turned == rotateArray(CirclePoints, start)
  IN  Append(turned, turned[1])

\* Started at either end of the horizontal diameter.
Circles == {Loop(k) : k \in {0, 3}} \cup {Reversed(Loop(k)) : k \in {0, 3}}

\* The straight segments from or to the origin of the grid.
Lines ==
  {s \in [1..2 -> Grid] :
     /\ ~Degenerate(s) /\ RationalPath(s)
     /\ (s[1] = P(0, 0) \/ s[2] = P(0, 0))}

InitScenario ==
  /\ build \in Builds
  /\ call = "matchShape"
  /\ \E drawn \in Lines :
       \E circuit \in Circles :
         \E algorithm \in {"hausdorff", "turning-angle"} :
           /\ build = "pca" => AxisAligned(drawn) /\ AxisAligned(circuit)
           /\ args = [drawnPoints |-> drawn, circuitPoints |-> circuit,
                      algorithm |-> algorithm]
  /\ pc = "start"
  /\ locals = MatchLocals(ScenarioSamples)
  /\ ret = NoRet

SpecScenario == InitScenario /\ [][NextMatch]_vars

\* score < 20.  100 * Math.exp(-k * d) < 20 iff k * d > ln 5 = 1.6094...:
\* for d = Math.sqrt(v) iff k * k * v > 2.5902..., for d = v * pi / 18000
\* iff k * v > 9221.3...
Below20(score) ==
  IF score.exact THEN Lt(score.val, Num(20))
  ELSE IF score.unit = "sqrt"
       THEN Gt(Mul(Num(score.k * score.k), score.val), Q(259, 100))
       ELSE Gt(Mul(Num(score.k), score.val), Num(9221))

\* C13: for a straight line segment drawn and a circle as candidate,
\* matchShape returns a similarity below 20 under hausdorff and below 20
\* under turning-angle.
C13_LineAgainstCircleBelow20 ==
  MatchDone /\ args.drawnPoints \in Lines /\ args.circuitPoints \in Circles
    => ~ret.threw /\ Below20(ret.value)


\* ------------------------------------------ normalizePoints, scale factor 0

\* normalizePoints(S) has returned (the first of the two calls).
NormalizedBase == call = "normalizePoints" /\ pc # "start"

\* C14: when all the input points coincide (scale factor 0), normalizePoints
\* returns the translated (and rotated) points without scaling them: as many
\* points as the input, every coordinate finite, and every point at the
\* origin, where the translation of either policy puts a single location.
C14_CoincidentTranslatedUnscaled ==
  NormalizedBase /\ Len(args.points) > 0 /\ Degenerate(args.points)
    => /\ Len(locals.base) = Len(args.points)
       /\ \A i \in 1..Len(locals.base) :
            /\ IsFinite(locals.base[i].x) /\ IsFinite(locals.base[i].y)
            /\ locals.base[i] = P(0, 0)


\* --------------------------------------------- matchShape, guards on entry

\* matchShape has called hausdorffDistance(resampled1, resampled2).
HausdorffInvoked ==
  call = "matchShape" /\ pc = "done" /\ args.algorithm = "hausdorff"

\* C15: hausdorffDistance is never invoked with an empty sequence: whatever
\* matchShape is given, both sequences it hands to the engine are non-empty.
C15_HausdorffNeverOnEmpty ==
  HausdorffInvoked
    => Len(locals.resampled1) > 0 /\ Len(locals.resampled2) > 0


\* Coordinates that are not finite numbers.
NonFinite == {NaN, PosInf, NegInf}

\* Points with at least one non-finite coordinate.
InvalidPoints ==
  {Pt(x, y) : x \in NonFinite \cup {Zero}, y \in NonFinite \cup {Zero}}
    \ {P(0, 0)}

\* Point sequences holding an invalid point, alone or next to a valid one.
InvalidInputs ==
  {<<p>> : p \in InvalidPoints}
    \cup {<<P(0, 0), p>> : p \in InvalidPoints}
    \cup {<<p, P(1, 1)>> : p \in InvalidPoints}

\* Some coordinate of the sequence is NaN or infinite.
HasNonFinite(points) ==
  \E i \in 1..Len(points) : ~IsFinite(points[i].x) \/ ~IsFinite(points[i].y)

\* matchShape is called with an invalid drawing or an invalid candidate.
InitIngest ==
  /\ build \in Builds
  /\ call = "matchShape"
  /\ \E invalid \in InvalidInputs :
       \E valid \in {<<P(0, 0), P(1, 0)>>} :
         \E algorithm \in Algorithms :
           \/ args = [drawnPoints |-> invalid, circuitPoints |-> valid,
                      algorithm |-> algorithm]
           \/ args = [drawnPoints |-> valid, circuitPoints |-> invalid,
                      algorithm |-> algorithm]
  /\ pc = "start"
  /\ locals = MatchLocals(NumSamples)
  /\ ret = NoRet

SpecIngest == InitIngest /\ [][NextMatch]_vars

\* C16: a drawing or candidate with a NaN or infinite coordinate is rejected
\* by matchShape before any normalization or distance computation has run on
\* it: past the entry, the call has failed and nothing has been computed.
C16_NonFiniteRejectedAtIngestion ==
  /\ call = "matchShape"
  /\ HasNonFinite(args.drawnPoints) \/ HasNonFinite(args.circuitPoints)
  /\ pc # "start"
  => /\ ret.threw
     /\ locals.normalized1 = <<>> /\ locals.normalized2 = <<>>
     /\ IsNaN(locals.distance)


\* ------------------------------------------ normalizePoints, the unit box

\* The numbers from 0 to 1.
InUnit(a) == Ge(a, Zero) /\ Le(a, One)

\* C17: in the bounding-box build, for every non-degenerate input the output
\* of normalizePoints has its bounding-box minimum exactly at (0, 0), every
\* coordinate in [0, 1] and the larger side of its bounding box equal to 1,
\* and it has the input's points in the input's order: point i of the input
\* is point i of the output, scaled back and moved back.
C17_UnitBoxSameOrder ==
  NormalizedBase /\ build = "bbox" /\ ~Degenerate(args.points)
    => LET in    == args.points
           out   == locals.base
           bbox  == getBoundingBox(in)
           scale == Max2(bbox.width, bbox.height)
       IN  /\ Len(out) = Len(in)
           /\ \A i \in 1..Len(out) : InUnit(out[i].x) /\ InUnit(out[i].y)
           /\ \E i \in 1..Len(out) : out[i].x = Zero
           /\ \E i \in 1..Len(out) : out[i].y = Zero
           /\ \E i \in 1..Len(out) : out[i].x = One \/ out[i].y = One
           /\ \A i \in 1..Len(out) :
                in[i] = Pt(Add(bbox.minX, Mul(scale, out[i].x)),
                           Add(bbox.minY, Mul(scale, out[i].y)))

\* A path of three points or more, off the origin, taller than wide or wider
\* than tall, with a point strictly inside the box.
C17_Witness ==
  /\ NormalizedBase /\ build = "bbox" /\ ~Degenerate(args.points)
  /\ Len(args.points) >= 3
  /\ locals.base # args.points
  /\ getBoundingBox(args.points).width # getBoundingBox(args.points).height
  /\ \E i \in 1..Len(locals.base) :
       Gt(locals.base[i].y, Zero) /\ Lt(locals.base[i].y, One)


\* --------------------------------------------- resamplePoints, arc length

\* The point of the path at arc length t past points[i - 1], for a t that is
\* not negative: on the first segment long enough to hold it, and the last
\* point when the path ends first.
RECURSIVE pointAt(_, _, _)
pointAt(points, i, t) ==
  IF i > Len(points) THEN points[Len(points)]
  ELSE LET prev == points[i - 1]
           curr == points[i]
           d    == segLength(curr, prev)
       IN  IF d # Zero /\ Le(t, d)
           THEN Pt(Add(prev.x, Mul(Div(t, d), Sub(curr.x, prev.x))),
                   Add(prev.y, Mul(Div(t, d), Sub(curr.y, prev.y))))
           ELSE pointAt(points, i + 1, Sub(t, d))

\* C18: for a non-degenerate path S of total length L and n >= 2, output
\* point k (k = 0..n-1) of resamplePoints(S, n) is the point of the path at
\* arc length k * L / (n - 1) from its start: the samples are equally spaced
\* along the path, in path direction, and the last one is the last input
\* point.
C18_UniformByArcLength ==
  ResampleDone /\ ~Degenerate(args.points)
    => LET n == args.numPoints
           L == pathLength(args.points, Len(args.points))
       IN  /\ ~ret.threw
           /\ Len(ret.value) = n
           /\ \A k \in 0..(n - 1) :
                ret.value[k + 1]
                  = pointAt(args.points, 2, Div(Mul(Num(k), L), Num(n - 1)))
           /\ ret.value[n] = args.points[Len(args.points)]

\* A path with a corner resampled to four points, one of them not a point of
\* the input, the last one the input's last.
C18_Witness ==
  /\ ResampleDone /\ ~Degenerate(args.points)
  /\ Len(args.points) >= 3
  /\ args.numPoints = 4
  /\ \E k \in 1..Len(ret.value) :
       \A i \in 1..Len(args.points) : ret.value[k] # args.points[i]
  /\ ret.value[4] = args.points[Len(args.points)]
  /\ ret.value[4] # ret.value[1]


\* ------------------------------- frechetDistanceWithOffset, table by rows

\* Cell (i, j), counted from 0, of the table over points1 and rotated2 that
\* is filled iteratively, row by row.
tableCell(points1, rotated2, i, j) ==
  frechetRows(points1, rotated2, i + 1)[j + 1]

\* C19: for non-empty A and B and any offset, the memoized recursion of
\* frechetDistanceWithOffset returns cell (n-1, m-1) of the table with
\* ca[0][0] = d(A0, B0), first row and column running maxima and
\* ca[i][j] = max(d(Ai, Bj), min(ca[i-1][j], ca[i-1][j-1], ca[i][j-1])),
\* the value of a table over A and the rotated B filled iteratively in
\* row-major order; and every cell the recursion has stored is that table's.
C19_RecursionIsRowMajorTable ==
  FrechetDone
    => LET n        == Len(args.points1)
           m        == Len(args.points2)
           rotated2 == rotateArray(args.points2, args.offset)
       IN  /\ ~ret.threw
           /\ ret.value = tableCell(args.points1, rotated2, n - 1, m - 1)
           /\ \A i \in 0..(n - 1) : \A j \in 0..(m - 1) :
                \/ locals.ca[i][j] = Num(-1)
                \/ locals.ca[i][j] = tableCell(args.points1, rotated2, i, j)

\* Two different shapes at an offset other than 0, with a finite distance
\* above 0 and an inner cell that holds neither its own point distance nor
\* the cell above it.
C19_Witness ==
  /\ FrechetDone
  /\ args.offset # 0
  /\ args.points1 # args.points2
  /\ IsFinite(ret.value) /\ Gt(ret.value, Zero)
  /\ \E i \in 1..(Len(args.points1) - 1) : \E j \in 1..(Len(args.points2) - 1) :
       /\ Gt(locals.ca[i][j], Num(-1))
       /\ locals.ca[i][j] # locals.ca[i - 1][j]
       /\ locals.ca[i][j]
            # distanceSq(args.points1[i + 1], locals.rotated2[j + 1])


\* ------------------------------- frechetDistance and turningAngleDistance
(***************************************************************************)
(* The search over the starting offsets, iteration by iteration.  tried    *)
(* records, for each iteration, the offset, the two sequences the engine   *)
(* has worked on and the distance it has returned.                         *)
(***************************************************************************)

Corners == <<P(0, 0), P(1, 0), P(1, 1), P(0, 1)>>

\* len points around the unit square, from corner start on.
Around(len, start) == [i \in 1..len |-> Corners[((i - 1 + start) % 4) + 1]]

\* len points along the x axis.
Ramp(len) == [i \in 1..len |-> P(i - 1, 0)]

\* Lengths of the second sequence: none, below 8, from 8 to 15, 16 and more,
\* and the 64 of matchShape.
SearchLengths == {0, 1, 3, 8, 15, 16, 17, 24, 64}

SearchFirsts == {<<>>, <<P(0, 0)>>, <<P(0, 0), P(1, 0)>>, Corners}

SearchSeconds ==
  {Around(len, start) : len \in SearchLengths, start \in 0..1}
    \cup {Ramp(len) : len \in SearchLengths}

\* The per-offset engine of either search.
distanceWithOffset(fn, points1, points2, offset) ==
  IF fn = "frechetDistance"
  THEN frechetDistanceWithOffset(points1, points2, offset)
  ELSE turningAngleDistanceWithOffset(points1, points2, offset)

SearchLocals == [step |-> 0, offset |-> 0, minDistance |-> NaN, tried |-> <<>>]

InitSearch ==
  /\ build = "pca"
  /\ call \in {"frechetDistance", "turningAngleDistance"}
  /\ \E points1 \in SearchFirsts :
       \E points2 \in SearchSeconds :
         args = [points1 |-> points1, points2 |-> points2]
  /\ pc = "start"
  /\ locals = SearchLocals
  /\ ret = NoRet

\* if (points1.length === 0 || points2.length === 0) return Infinity
SearchEmpty ==
  /\ call \in {"frechetDistance", "turningAngleDistance"} /\ pc = "start"
  /\ Len(args.points1) = 0 \/ Len(args.points2) = 0
  /\ ret' = Return(PosInf)
  /\ pc' = "done"
  /\ UNCHANGED <<build, call, args, locals>>

\* const step = ...; let minDistance = Infinity; let offset = 0
SearchSetup ==
  /\ call \in {"frechetDistance", "turningAngleDistance"} /\ pc = "start"
  /\ Len(args.points1) # 0 /\ Len(args.points2) # 0
  /\ locals' = [step        |-> offsetStep(Len(args.points2)),
                offset      |-> 0,
                minDistance |-> PosInf,
                tried       |-> <<>>]
  /\ pc' = "loop"
  /\ UNCHANGED <<build, call, args, ret>>

\* One iteration of the for loop.
SearchTry ==
  /\ call \in {"frechetDistance", "turningAngleDistance"} /\ pc = "loop"
  /\ locals.offset < Len(args.points2)
  /\ LET dist == distanceWithOffset(call, args.points1, args.points2,
                                    locals.offset)
     IN  locals' = [locals EXCEPT
                      !.minDistance = Min2(@, dist),
                      !.offset = @ + locals.step,
                      !.tried = Append(@,
                                  [offset |-> locals.offset,
                                   first  |-> args.points1,
                                   second |-> rotateArray(args.points2,
                                                          locals.offset),
                                   dist   |-> dist])]
  /\ UNCHANGED <<build, call, args, pc, ret>>

\* The loop is left: return minDistance
SearchReturn ==
  /\ call \in {"frechetDistance", "turningAngleDistance"} /\ pc = "loop"
  /\ ~(locals.offset < Len(args.points2))
  /\ ret' = Return(locals.minDistance)
  /\ pc' = "done"
  /\ UNCHANGED <<build, call, args, locals>>

NextSearch == SearchEmpty \/ SearchSetup \/ SearchTry \/ SearchReturn

SpecSearch == InitSearch /\ [][NextSearch]_vars

SearchDone ==
  call \in {"frechetDistance", "turningAngleDistance"} /\ pc = "done"

\* The search has tried exactly the offsets 0, step, 2 * step, ... below the
\* length of points2, with step = max(1, floor(len / 8)): 8 offsets for 64
\* points and every offset for fewer than 16.  Each time the first sequence
\* was taken as it is and the second one started offset places later, and
\* the value returned is the least of the distances found.
TriedEveryStep ==
  LET len   == Len(args.points2)
      step  == IF len \div 8 >= 1 THEN len \div 8 ELSE 1
      count == (len + step - 1) \div step
      tried == locals.tried
  IN  /\ Len(tried) = count
      /\ len = 64 => count = 8
      /\ len < 16 => count = len
      /\ \A k \in 1..Len(tried) :
           /\ tried[k].offset = (k - 1) * step
           /\ tried[k].first = args.points1
           /\ Len(tried[k].second) = len
           /\ \A i \in 1..len :
                tried[k].second[i]
                  = args.points2[((i - 1 + tried[k].offset) % len) + 1]
           /\ ~Gt(ret.value, tried[k].dist)
      /\ count > 0 => \E k \in 1..Len(tried) : ret.value = tried[k].dist
      /\ count > 0 => ~Gt(ret.value, tried[1].dist)

\* C20 as stated: frechetDistance and turningAngleDistance evaluate the
\* per-offset distance exactly for the offsets 0, step, 2 * step, ... below
\* len(points2), rotating only the second sequence, and return the minimum
\* of those distances, whatever the two sequences are.
C20_OffsetsAlways == SearchDone => ~ret.threw /\ TriedEveryStep

\* C20, amended: so they do when both sequences are non-empty; when either is
\* empty they return Infinity and evaluate no offset at all.
C20_OffsetsUnlessEmpty ==
  SearchDone
    => /\ ~ret.threw
       /\ IF Len(args.points1) = 0 \/ Len(args.points2) = 0
          THEN ret.value = PosInf /\ locals.tried = <<>>
          ELSE TriedEveryStep

\* 64 points searched at 8 offsets, the least distance found at an offset
\* other than 0.
C20_Witness ==
  /\ SearchDone
  /\ Len(args.points1) > 1
  /\ Len(args.points2) = 64
  /\ Len(locals.tried) = 8
  /\ IsFinite(ret.value)
  /\ Lt(ret.value, locals.tried[1].dist)


\* ---------------------------------------------------------------- getAngles
(***************************************************************************)
(* The turning-angle profile of one sequence, taken as a closed one.       *)
(***************************************************************************)

\* The unit square, closed.
ClosedSquare == Append(Corners, Corners[1])

\* Sample counts for the square: n - 1 a multiple of 4 (the corners are
\* samples), 16, and the 64 of matchShape.
SquareSamples == {5, 9, 16, 17, 64}

Squares == {Corners} \cup {resamplePoints(ClosedSquare, n) : n \in SquareSamples}

\* The sequences getAngles is called on.
Profiled == Clouds(MaxLen + 1) \cup Catalog \cup Squares

InitAngles ==
  /\ build = "pca"
  /\ call = "getAngles"
  /\ \E points \in Profiled : args = [points |-> points]
  /\ pc = "start"
  /\ locals = <<>>
  /\ ret = NoRet

\* const angles = []; for (...) { ... angles.push(diff) }; return angles
AnglesProfile ==
  /\ call = "getAngles" /\ pc = "start"
  /\ ret' = Return(getAngles(args.points))
  /\ pc' = "done"
  /\ UNCHANGED <<build, call, args, locals>>

NextAngles == AnglesProfile

SpecAngles == InitAngles /\ [][NextAngles]_vars

AnglesDone == call = "getAngles" /\ pc = "done"

\* a and b differ by a whole number of turns.
SameHeading(a, b) ==
  LET d == Sub(a, b) IN d[2] = 1 /\ d[1] % (2 * MathPI[1]) = 0

\* C21: the profile has one entry per point; entry i is the difference of
\* the heading from point i-1 to point i and the heading from point i to
\* point i+1 (indices modulo the length), wrapped into (-pi, pi]: -pi is
\* never produced.
C21_WrappedHalfOpen ==
  AnglesDone
    => LET points == args.points
           len    == Len(points)
       IN  /\ Len(ret.value) = len
           /\ \A i \in 1..len :
                LET prev == points[((i + len - 2) % len) + 1]
                    next == points[(i % len) + 1]
                    in   == Atan2(Sub(points[i].y, prev.y),
                                  Sub(points[i].x, prev.x))
                    out  == Atan2(Sub(next.y, points[i].y),
                                  Sub(next.x, points[i].x))
                IN  /\ SameHeading(ret.value[i], Sub(out, in))
                    /\ Gt(ret.value[i], Neg(MathPI))
                    /\ Le(ret.value[i], MathPI)


\* A quarter turn.
HalfPi == Div(MathPI, Num(2))

\* The entries of the profile that are not 0.
Turns(angles) == {i \in 1..Len(angles) : angles[i] # Zero}

\* Four entries of magnitude pi/2, every other entry 0.
FourRightAngles(angles) ==
  /\ Cardinality(Turns(angles)) = 4
  /\ \A i \in Turns(angles) : AbsNum(angles[i]) = HalfPi

\* The four corners of the square are points of the sequence.
HasCorners(points) ==
  \A c \in 1..Len(Corners) : \E i \in 1..Len(points) : points[i] = Corners[c]

BelowEpsilon(denom) ==
  /\ IsFinite(denom)
  /\ \/ denom[1] = 0
     \/ (denom[2] \div Abs(denom[1])) \div 100000 > 100000

\* segmentsIntersect: the crossing point as a one-element sequence, or the
\* empty sequence for null.
segmentsIntersect(p1, p2, p3, p4) ==
  LET denom == Sub(Mul(Sub(p1.x, p2.x), Sub(p3.y, p4.y)),
                   Mul(Sub(p1.y, p2.y), Sub(p3.x, p4.x)))
      t == Div(Sub(Mul(Sub(p1.x, p3.x), Sub(p3.y, p4.y)),
                   Mul(Sub(p1.y, p3.y), Sub(p3.x, p4.x))), denom)
      u == Neg(Div(Sub(Mul(Sub(p1.x, p2.x), Sub(p1.y, p3.y)),
                       Mul(Sub(p1.y, p2.y), Sub(p1.x, p3.x))), denom))
  IN  IF BelowEpsilon(denom) THEN <<>>
      ELSE IF Ge(t, Zero) /\ Le(t, One) /\ Ge(u, Zero) /\ Le(u, One)
           THEN <<Pt(Add(p1.x, Mul(t, Sub(p2.x, p1.x))),
                     Add(p1.y, Mul(t, Sub(p2.y, p1.y))))>>
           ELSE <<>>

\* The segment from the point of index i (from 0) crosses an earlier segment
\* other than the one just before it.
crossesEarlier(points, i) ==
  \E j \in 0..(i - 2) :
    segmentsIntersect(points[i + 1], points[i + 2],
                      points[j + 1], points[j + 2]) # <<>>

\* findFirstSelfIntersection: the index (from 0) to truncate at, or -1.
findFirstSelfIntersection(points) ==
  IF Len(points) < 4 THEN -1
  ELSE LET hits == {i \in 2..(Len(points) - 2) : crossesEarlier(points, i)}
       IN  IF hits = {} THEN -1
           ELSE CHOOSE i \in hits : \A k \in hits : i <= k

\* Fault model: the truncation keeps the crossing segment.
cleanupKeepsCrossing(points) ==
  IF Len(points) < 4 THEN points
  ELSE LET intersectionIndex == findFirstSelfIntersection(points)
       IN  IF intersectionIndex # -1
           THEN SubSeq(points, 1, intersectionIndex + 2)
           ELSE points

\* cleanupSelfIntersection.
cleanupSelfIntersection(points) ==
  IF Len(points) < 4 THEN points
  ELSE LET intersectionIndex == findFirstSelfIntersection(points)
       IN  IF intersectionIndex # -1
           THEN SubSeq(points, 1, intersectionIndex + 1)
           ELSE points

\* Longest drawn path.
MaxPath == 5

\* The points a drawn path visits.
PathPoints == {P(0, 0), P(1, 0), P(1, 1), P(0, 1), P(2, 0)}

DrawnPaths == UNION {[1..k -> PathPoints] : k \in 0..MaxPath}

InitCleanup ==
  /\ build = "bbox"
  /\ call = "cleanupSelfIntersection"
  /\ \E points \in DrawnPaths : args = [points |-> points]
  /\ pc = "start"
  /\ locals = <<>>
  /\ ret = NoRet

CleanupRun ==
  /\ call = "cleanupSelfIntersection"
  /\ pc = "start"
  /\ ret' = Return(cleanupSelfIntersection(args.points))
  /\ pc' = "done"
  /\ UNCHANGED <<build, call, args, locals>>

NextCleanup == CleanupRun

SpecCleanup == InitCleanup /\ [][NextCleanup]_vars

CleanupDone == call = "cleanupSelfIntersection" /\ pc = "done"

\* Some segment of the path crosses an earlier segment that is not adjacent
\* to it.
SelfIntersects(points) ==
  \E i \in 2..(Len(points) - 2) : crossesEarlier(points, i)

\* C23: the path is cut at its first self-intersection and the returned path
\* is a closed loop, its last point being its first point; a path of fewer
\* than 4 points or without self-intersection is returned unchanged.
C23_TruncatedAndClosed ==
  CleanupDone =>
    IF Len(args.points) < 4 \/ ~SelfIntersects(args.points)
    THEN ret.value = args.points
    ELSE /\ Len(ret.value) = findFirstSelfIntersection(args.points) + 1
         /\ ret.value = SubSeq(args.points, 1, Len(ret.value))
         /\ ret.value[Len(ret.value)] = ret.value[1]

\* C30: the result is a prefix of the input, no two non-adjacent segments of
\* it are reported crossing by segmentsIntersect (in either argument order),
\* and cleaning it again gives it back.
C30_PrefixCrossingFreeIdempotent ==
  CleanupDone =>
    LET out == ret.value
    IN  /\ Len(out) <= Len(args.points)
        /\ out = SubSeq(args.points, 1, Len(out))
        /\ \A a \in 1..(Len(out) - 1) : \A b \in 1..(Len(out) - 1) :
             a + 1 < b =>
               /\ segmentsIntersect(out[b], out[b + 1], out[a], out[a + 1]) = <<>>
               /\ segmentsIntersect(out[a], out[a + 1], out[b], out[b + 1]) = <<>>
        /\ cleanupSelfIntersection(out) = out

\* A path cut at its self-intersection that keeps non-adjacent segments.
C30_Witness ==
  /\ CleanupDone
  /\ Len(ret.value) < Len(args.points)
  /\ Len(ret.value) >= 4


\* ---------------------------------------------------------------------
\* frechet against hausdorff
\* ---------------------------------------------------------------------

\* a <= b for a frechet or hausdorff score a and b, false when either is
\* NaN.  Two Decay scores 100 * Math.exp(-k * Math.sqrt(v)) compare as the
\* squares k * k * v of their exponents do, in the opposite order.
ScoreLe(a, b) ==
  CASE a.exact /\ b.exact   -> Le(a.val, b.val)
    [] a.exact /\ ~b.exact  -> Le(a.val, Zero)
    [] ~a.exact /\ b.exact  -> Ge(b.val, Num(100))
    [] ~a.exact /\ ~b.exact ->
         Ge(Mul(Num(a.k * a.k), a.val), Mul(Num(b.k * b.k), b.val))

\* A frechet call on non-empty inputs has returned.
FrechetScored ==
  /\ MatchDone
  /\ args.algorithm = "frechet"
  /\ Len(args.drawnPoints) # 0
  /\ Len(args.circuitPoints) # 0

\* C24: for non-empty finite inputs the Frechet distance found by the offset
\* search is at least the Hausdorff distance of the same resampled pair, and
\* the frechet score is at most the hausdorff score, in both builds.
C24_FrechetAtLeastHausdorff ==
  FrechetScored =>
    /\ Ge(locals.distance,
          hausdorffDistance(locals.resampled1, locals.resampled2))
    /\ ScoreLe(ret.value,
               matchSwitch("hausdorff", locals.resampled1,
                           locals.resampled2, build)[2].value)


\* ---------------------------------------------------------------------
\* turning-angle: rotation and symmetry
\* ---------------------------------------------------------------------

\* A turning-angle call has returned, on non-degenerate sequences, with a
\* sample count the offset step divides (as 8 divides 64), so that the
\* offsets tried are closed under negation modulo the sample count.
TurningScored ==
  /\ MatchDone
  /\ args.algorithm = "turning-angle"
  /\ Len(locals.resampled1) = locals.numSamples
  /\ Len(locals.resampled2) = locals.numSamples
  /\ ~HasNonFinite(locals.resampled1)
  /\ ~HasNonFinite(locals.resampled2)
  /\ locals.numSamples % offsetStep(locals.numSamples) = 0

\* C25: the profile of a rotated sequence is the rotated profile, and
\* matchShape(A, B, 'turning-angle') = matchShape(B, A, 'turning-angle').
C25_TurningAngleSymmetric ==
  TurningScored =>
    /\ \A k \in 0..(locals.numSamples - 1) :
         /\ getAngles(rotateArray(locals.resampled2, k))
              = rotateArray(getAngles(locals.resampled2), k)
         /\ getAngles(rotateArray(locals.resampled1, k))
              = rotateArray(getAngles(locals.resampled1), k)
    /\ locals.distance
         = turningAngleDistance(locals.resampled2, locals.resampled1)
    /\ ret = matchSwitch("turning-angle", locals.resampled2,
                         locals.resampled1, build)[2]

\* A line scored against a loop: a finite distance that is not 0, found at an
\* offset other than 0.
C25_Witness ==
  /\ TurningScored
  /\ IsFinite(locals.distance)
  /\ locals.distance # Zero
  /\ Lt(locals.distance,
        turningAngleDistanceWithOffset(locals.resampled1,
                                       locals.resampled2, 0))


\* ---------------------------------------------------------------------
\* alignCircuitToDrawing
\* ---------------------------------------------------------------------

InitAlign ==
  /\ build \in Builds
  /\ call = "alignCircuitToDrawing"
  /\ \E drawn \in Inputs :
       \E circuit \in Catalog \cup {drawn} :
         args = [circuitPoints |-> circuit, drawnPoints |-> drawn]
  /\ pc = "start"
  /\ locals = <<>>
  /\ ret = NoRet

AlignRun ==
  /\ call = "alignCircuitToDrawing"
  /\ pc = "start"
  /\ ret' = Return(alignCircuitToDrawing(args.circuitPoints, args.drawnPoints))
  /\ pc' = "done"
  /\ UNCHANGED <<build, call, args, locals>>

NextAlign == AlignRun

SpecAlign == InitAlign /\ [][NextAlign]_vars

AlignDone == call = "alignCircuitToDrawing" /\ pc = "done"

\* Both inputs have points and the candidate's box has positive width and
\* height.
Alignable ==
  /\ Len(args.circuitPoints) # 0
  /\ Len(args.drawnPoints) # 0
  /\ Gt(getBoundingBox(args.circuitPoints).width, Zero)
  /\ Gt(getBoundingBox(args.circuitPoints).height, Zero)

\* C26: with an empty input the candidate's points are returned unchanged;
\* otherwise, the candidate's box having positive width and height, the
\* result is the candidate scaled by the one factor
\* min(drawnW / circuitW, drawnH / circuitH), point for point in the same
\* order, its box inside the drawing's box, with the same centre, and as wide
\* or as high as the drawing's box.
C26_AlignedInsideCentred ==
  AlignDone =>
    /\ Len(args.circuitPoints) = 0 \/ Len(args.drawnPoints) = 0
         => ret.value = args.circuitPoints
    /\ Alignable =>
         LET c == getBoundingBox(args.circuitPoints)
             d == getBoundingBox(args.drawnPoints)
             r == getBoundingBox(ret.value)
             scale == Min2(Div(d.width, c.width), Div(d.height, c.height))
         IN  /\ Len(ret.value) = Len(args.circuitPoints)
             /\ \A i \in 1..Len(ret.value) :
                  /\ Sub(ret.value[i].x, r.minX)
                       = Mul(Sub(args.circuitPoints[i].x, c.minX), scale)
                  /\ Sub(ret.value[i].y, r.minY)
                       = Mul(Sub(args.circuitPoints[i].y, c.minY), scale)
             /\ Ge(r.minX, d.minX) /\ Le(r.maxX, d.maxX)
             /\ Ge(r.minY, d.minY) /\ Le(r.maxY, d.maxY)
             /\ r.centerX = d.centerX /\ r.centerY = d.centerY
             /\ r.width = d.width \/ r.height = d.height

\* A candidate shrunk to the drawing's width and centred in its height.
C26_Witness ==
  /\ AlignDone
  /\ Alignable
  /\ LET d == getBoundingBox(args.drawnPoints)
         r == getBoundingBox(ret.value)
     IN  /\ r.width = d.width
         /\ Gt(r.width, Zero)
         /\ Lt(r.height, d.height)
         /\ Gt(r.minY, d.minY)
         /\ ret.value # args.circuitPoints


\* ---------------------------------------------------------------------
\* CircuitCard and loadCircuitWithWikipedia
\* ---------------------------------------------------------------------
(***************************************************************************)
(* The card keeps enrichedCircuit, loadingProgress and isLoading; its      *)
(* effect runs after the mount and after every render that changed         *)
(* circuit.id.  A load is a pending call of loadCircuitWithWikipedia: it   *)
(* waits for the summary, then for its JSON body, then for the HTML page,  *)
(* and once settled its then-callback runs on the card.  Nothing cancels a *)
(* load when the circuit changes.                                          *)
(***************************************************************************)

\* The circuits the parent shows are those of circuits.json; the Wikipedia
\* mapping has a title for monaco and spa.
CircuitIds == {"monaco", "monza", "spa"}
ListedIds  == CircuitIds
MappedIds  == {"monaco", "spa"}

\* The fields of a Circuit the card and the loader read.
CardCircuit(id, facts, length) == [id |-> id, facts |-> facts, length |-> length]

\* The circuits the parent passes: as loadAllCircuits makes them, or complete.
CardProps ==
  {CardCircuit(id, <<>>, "Loading...") : id \in CircuitIds}
    \cup {CardCircuit(id, <<"Street circuit.">>, "3.3 km") : id \in CircuitIds}

\* The renders with a new circuit that a behaviour holds at most.
MaxRenders == 2

\* circuit.facts.length === 0 || circuit.length === 'Loading...'
needsLoad(circuit) == Len(circuit.facts) = 0 \/ circuit.length = "Loading..."

\* The WikiData of the two catch and not-ok returns.
wikiUnavailable == [facts |-> <<"Information temporarily unavailable">>, length |-> ""]

\* The Circuit loadCircuitWithWikipedia builds from the WikiData
\* (length: wikiData.length || 'N/A').
withWikiData(circuitId, wikiData) ==
  CardCircuit(circuitId, wikiData.facts,
              IF wikiData.length = "" THEN "N/A" ELSE wikiData.length)

\* A pending load: the id it was started for, the await it is at, the facts
\* gathered so far and, once settled, the value of the promise (a sequence of
\* no element for null).
CardLoad(id, stage, facts, value) ==
  [id |-> id, stage |-> stage, facts |-> facts, value |-> value]

\* loadCircuitWithWikipedia up to its first await.
startLoad(circuitId) ==
  IF circuitId \notin ListedIds THEN CardLoad(circuitId, "settled", <<>>, <<>>)
  ELSE IF circuitId \notin MappedIds
  THEN CardLoad(circuitId, "settled", <<>>,
                <<CardCircuit(circuitId, <<"Information not available">>, "N/A")>>)
  ELSE CardLoad(circuitId, "summary", <<>>, <<>>)

\* The load settled with the given WikiData.
settle(load, wikiData) ==
  [load EXCEPT !.stage = "settled",
               !.value = <<withWikiData(load.id, wikiData)>>]

\* The loads without the one at index i.
dropLoad(loads, i) == SubSeq(loads, 1, i - 1) \o SubSeq(loads, i + 1, Len(loads))

\* No then-callback is waiting: a settled promise runs its callback as a
\* microtask, before the next render, effect or network event.
NoMicrotask ==
  \A i \in 1..Len(locals.loads) : locals.loads[i].stage # "settled"

InitCard ==
  /\ build = "bbox"
  /\ call = "CircuitCard"
  /\ \E circuit \in CardProps :
       /\ args = [circuit |-> circuit]
       /\ locals = [enrichedCircuit |-> circuit, loadingProgress |-> 0,
                    isLoading |-> FALSE, effect |-> TRUE, loads |-> <<>>,
                    renders |-> 0]
  /\ pc = "mounted"
  /\ ret = NoRet

\* The parent renders the card with another circuit; the effect is scheduled
\* when circuit.id changed.
CardRender ==
  /\ call = "CircuitCard"
  /\ ~locals.effect
  /\ NoMicrotask
  /\ locals.renders < MaxRenders
  /\ \E circuit \in CardProps \ {args.circuit} :
       /\ args' = [circuit |-> circuit]
       /\ locals' = [locals EXCEPT !.effect = circuit.id # args.circuit.id,
                                   !.renders = @ + 1]
  /\ UNCHANGED <<build, call, pc, ret>>

\* The useEffect callback; onProgress(0.2) runs before the first await.
CardEffect ==
  /\ call = "CircuitCard"
  /\ locals.effect
  /\ NoMicrotask
  /\ IF needsLoad(args.circuit)
     THEN LET load == startLoad(args.circuit.id)
          IN  locals' = [locals EXCEPT
                !.effect = FALSE,
                !.isLoading = TRUE,
                !.loadingProgress = IF load.stage = "summary" THEN 20 ELSE 0,
                !.loads = Append(@, load)]
     ELSE locals' = [locals EXCEPT !.effect = FALSE,
                                   !.enrichedCircuit = args.circuit]
  /\ UNCHANGED <<build, call, args, pc, ret>>

\* await fetch(summaryUrl): it throws, or answers not ok or ok.
FetchSummary ==
  /\ call = "CircuitCard"
  /\ NoMicrotask
  /\ \E i \in 1..Len(locals.loads) :
       /\ locals.loads[i].stage = "summary"
       /\ \E outcome \in {"throws", "not ok", "ok"} :
            locals' = [locals EXCEPT
              !.loadingProgress = IF outcome = "throws" THEN @ ELSE 50,
              !.loads[i] = IF outcome = "ok" THEN [@ EXCEPT !.stage = "json"]
                           ELSE settle(@, wikiUnavailable)]
  /\ UNCHANGED <<build, call, args, pc, ret>>

\* await summaryResponse.json(): it throws, or gives the summary with or
\* without sentences to keep; then the page is requested.
FetchJson ==
  /\ call = "CircuitCard"
  /\ NoMicrotask
  /\ \E i \in 1..Len(locals.loads) :
       /\ locals.loads[i].stage = "json"
       /\ \E outcome \in {"throws", "no facts", "facts"} :
            locals' = [locals EXCEPT
              !.loadingProgress = IF outcome = "throws" THEN @ ELSE 70,
              !.loads[i] =
                 IF outcome = "throws" THEN settle(@, wikiUnavailable)
                 ELSE [@ EXCEPT !.stage = "html",
                                !.facts = IF outcome = "facts"
                                          THEN <<"Opened in 1929.">>
                                          ELSE <<>>]]
  /\ UNCHANGED <<build, call, args, pc, ret>>

\* await fetch(htmlUrl) in the inner try: with or without a length found.
FetchHtml ==
  /\ call = "CircuitCard"
  /\ NoMicrotask
  /\ \E i \in 1..Len(locals.loads) :
       /\ locals.loads[i].stage = "html"
       /\ \E length \in {"", "3.337 km"} :
            locals' = [locals EXCEPT
              !.loadingProgress = 100,
              !.loads[i] =
                 settle(@, [facts |-> IF Len(@.facts) > 0 THEN @.facts
                                      ELSE <<"Racing circuit with rich Formula 1 history">>,
                            length |-> length])]
  /\ UNCHANGED <<build, call, args, pc, ret>>

\* The then-callback of a settled load.
LoadThen ==
  /\ call = "CircuitCard"
  /\ \E i \in 1..Len(locals.loads) :
       /\ locals.loads[i].stage = "settled"
       /\ locals' = [locals EXCEPT
            !.enrichedCircuit = IF locals.loads[i].value # <<>>
                                THEN locals.loads[i].value[1] ELSE @,
            !.isLoading = FALSE,
            !.loads = dropLoad(@, i)]
  /\ UNCHANGED <<build, call, args, pc, ret>>

NextCard ==
  CardRender \/ CardEffect \/ FetchSummary \/ FetchJson \/ FetchHtml \/ LoadThen

SpecCard == InitCard /\ [][NextCard]_vars

\* Every request is answered or fails, and the callbacks of the card run.
SpecCardLive ==
  /\ InitCard /\ [][NextCard]_vars
  /\ WF_vars(CardEffect)
  /\ WF_vars(FetchSummary) /\ WF_vars(FetchJson) /\ WF_vars(FetchHtml)
  /\ WF_vars(LoadThen)

\* No load is in flight and no effect is waiting to run.
CardIdle == call = "CircuitCard" /\ ~locals.effect /\ locals.loads = <<>>

\* C27: once no load is in flight the card shows the circuit of the current
\* circuit prop; a stale load never overwrites it.
C27_ShowsCurrentWhenIdle ==
  CardIdle => locals.enrichedCircuit.id = args.circuit.id

\* A load for the circuit of the current prop is in flight.
CurrentLoadInFlight ==
  /\ call = "CircuitCard"
  /\ ~locals.effect
  /\ \E i \in 1..Len(locals.loads) : locals.loads[i].id = args.circuit.id

CardLoading == call = "CircuitCard" /\ locals.isLoading

\* C28: isLoading set true is eventually followed by isLoading false, and
\* isLoading is true whenever a load for the current id is in flight.
C28_LoadingTracksLoads ==
  /\ CardLoading ~> ~CardLoading
  /\ [](CurrentLoadInFlight => CardLoading)


\* ---------------------------------------------------------------------
\* scrapeWikipediaData and scrapeAllCircuitsData
\* ---------------------------------------------------------------------
(***************************************************************************)
(* A circuit id is the sequence of its words and separators.  A page text  *)
(* is the sequence of its sentences, of which extractFacts reads the       *)
(* length, whether the first word of the circuit's name occurs in it and   *)
(* whether one of the keywords does.  A scrape waits for the page text and *)
(* for the infobox together (Promise.all) and settles when both are there. *)
(***************************************************************************)

\* The titles of the Wikipedia mapping, by circuit id.
WikipediaMapping ==
  [id \in {<<"monaco">>, <<"abu", "_", "dhabi">>, <<"spa", "-", "francorchamps">>}
     |-> Append(id, "circuit")]

\* The ids a caller asks for.
RequestIds ==
  {<<"monaco">>, <<"abu", "-", "dhabi">>, <<"spa", "_", "francorchamps">>,
   <<"paddock">>}

\* str.replace(from, to): the first occurrence only.
replaceFirst(str, from, to) ==
  LET at == {i \in 1..Len(str) : str[i] = from}
  IN  IF at = {} THEN str
      ELSE [i \in 1..Len(str) |->
              IF i = CHOOSE k \in at : \A j \in at : k <= j THEN to ELSE str[i]]

\* WIKIPEDIA_MAPPING[id] || ...[id.replace('-', '_')] || ...[id.replace('_', '-')],
\* the empty sequence for undefined.
lookupTitle(circuitId) ==
  IF circuitId \in DOMAIN WikipediaMapping THEN WikipediaMapping[circuitId]
  ELSE IF replaceFirst(circuitId, "-", "_") \in DOMAIN WikipediaMapping
  THEN WikipediaMapping[replaceFirst(circuitId, "-", "_")]
  ELSE IF replaceFirst(circuitId, "_", "-") \in DOMAIN WikipediaMapping
  THEN WikipediaMapping[replaceFirst(circuitId, "_", "-")]
  ELSE <<>>

\* facts.slice(0, 8)
MaxFacts == 8

Sentence(n, length, named, keyword) ==
  [n |-> n, length |-> length, named |-> named, keyword |-> keyword]

\* A sentence extractFacts keeps, and four kinds it skips.
Kept(n)     == Sentence(n, 80, FALSE, TRUE)
TooShort(n) == Sentence(n, 12, FALSE, TRUE)
TooLong(n)  == Sentence(n, 240, FALSE, TRUE)
Named(n)    == Sentence(n, 80, TRUE, TRUE)
Plain(n)    == Sentence(n, 80, FALSE, FALSE)

\* A page text with kept sentences among skipped ones.
Text(kept) ==
  [i \in 1..(2 * kept) |->
     IF i % 2 = 1
     THEN CASE i % 8 = 1 -> TooShort(i) [] i % 8 = 3 -> TooLong(i)
            [] i % 8 = 5 -> Named(i) [] OTHER -> Plain(i)
     ELSE Kept(i)]

\* What fetchWikipediaContent resolves with: the extract of the page, ''
\* (no sentence) after a failure, or an extract that is not a string.
PageText(sentences)  == [isString |-> TRUE, sentences |-> sentences]
NotAString           == [isString |-> FALSE, sentences |-> <<>>]
PageTexts ==
  {PageText(Text(kept)) : kept \in {0, 3, MaxFacts, MaxFacts + 1}}
    \cup {NotAString}

\* What fetchWikipediaInfobox resolves with: the rows read, none after a
\* failure.
Infoboxes == {<<>>, <<"length">>}

\* sentence.trim() + '.'
factOf(sentence) == <<"sentence", sentence.n, ".">>

\* The sentences extractFacts pushes.
isFact(sentence) ==
  /\ ~(sentence.length < 30 \/ sentence.length > 200)
  /\ ~sentence.named
  /\ sentence.keyword

pushed(content) ==
  LET picked == SelectSeq(content.sentences, isFact)
  IN  [i \in 1..Len(picked) |-> factOf(picked[i])]

\* Fault model: every sentence that qualifies, however many.
extractFactsUncut(content) == pushed(content)

\* extractFacts
extractFacts(content) == slice(pushed(content), MaxFacts)

\* The WikipediaData fields of the model: the facts and the length.
WikipediaData(facts, length) == [facts |-> facts, length |-> length]

\* The try block of scrapeWikipediaData after Promise.all, and its catch:
\* <<how the promise settles, its value>>.
scrapeSettle(content, infobox) ==
  IF ~content.isString THEN <<"fulfilled", WikipediaData(<<>>, "")>>
  ELSE LET facts == extractFacts(content)
       IN  <<"fulfilled",
             WikipediaData(IF Len(facts) > 0 THEN facts
                           ELSE <<"Historic Formula 1 racing circuit">>,
                           IF infobox = <<>> THEN "" ELSE "5.793 km")>>

\* One call of scrapeWikipediaData: its id and title, what has arrived (a
\* sequence of no element: nothing yet), how it settled and its value.
Scrape(id, title, content, infobox, status, data) ==
  [id |-> id, title |-> title, content |-> content, infobox |-> infobox,
   status |-> status, data |-> data]

\* scrapeWikipediaData up to its first await.
startScrape(circuitId) ==
  LET wikipediaTitle == lookupTitle(circuitId)
  IN  IF wikipediaTitle = <<>>
      THEN Scrape(circuitId, <<>>, <<>>, <<>>, "fulfilled",
                  WikipediaData(<<>>, ""))
      ELSE Scrape(circuitId, wikipediaTitle, <<>>, <<>>, "pending",
                  WikipediaData(<<>>, ""))

\* The scrape once an answer has arrived: settled when both are there.
arrived(scrape) ==
  IF scrape.content # <<>> /\ scrape.infobox # <<>>
  THEN LET r == scrapeSettle(scrape.content[1], scrape.infobox[1])
       IN  [scrape EXCEPT !.status = r[1], !.data = r[2]]
  ELSE scrape

\* results.forEach: dataMap.set for the fulfilled ones, in order.
RECURSIVE collect(_, _)
collect(scrapes, n) ==
  IF n = 0 THEN [id \in {} |-> WikipediaData(<<>>, "")]
  ELSE LET before == collect(scrapes, n - 1)
       IN  IF scrapes[n].status = "fulfilled"
           THEN [id \in DOMAIN before \cup {scrapes[n].id} |->
                   IF id = scrapes[n].id THEN scrapes[n].data ELSE before[id]]
           ELSE before

\* The lists of ids asked for have 0, 1 or 2 ids.
RequestLists == UNION {[1..k -> RequestIds] : k \in {0, 1, 2}}

InitScrape ==
  /\ build = "pca"
  /\ call = "scrapeAllCircuitsData"
  /\ \E circuitIds \in RequestLists : args = [circuitIds |-> circuitIds]
  /\ pc = "start"
  /\ locals = [scrapes |-> <<>>]
  /\ ret = NoRet

\* circuitIds.map(async id => ...): every scrape runs to its first await.
ScrapeAllStart ==
  /\ call = "scrapeAllCircuitsData" /\ pc = "start"
  /\ locals' = [scrapes |-> [i \in 1..Len(args.circuitIds) |->
                               startScrape(args.circuitIds[i])]]
  /\ pc' = "waiting"
  /\ UNCHANGED <<build, call, args, ret>>

\* fetchWikipediaContent resolves.
ContentArrives ==
  /\ call = "scrapeAllCircuitsData" /\ pc = "waiting"
  /\ \E i \in 1..Len(locals.scrapes) :
       /\ locals.scrapes[i].status = "pending"
       /\ locals.scrapes[i].content = <<>>
       /\ \E content \in PageTexts :
            locals' = [locals EXCEPT
              !.scrapes[i] = arrived([@ EXCEPT !.content = <<content>>])]
  /\ UNCHANGED <<build, call, args, pc, ret>>

\* fetchWikipediaInfobox resolves.
InfoboxArrives ==
  /\ call = "scrapeAllCircuitsData" /\ pc = "waiting"
  /\ \E i \in 1..Len(locals.scrapes) :
       /\ locals.scrapes[i].status = "pending"
       /\ locals.scrapes[i].infobox = <<>>
       /\ \E infobox \in Infoboxes :
            locals' = [locals EXCEPT
              !.scrapes[i] = arrived([@ EXCEPT !.infobox = <<infobox>>])]
  /\ UNCHANGED <<build, call, args, pc, ret>>

\* Promise.allSettled resolves: the map is filled and returned.
ScrapeAllSettled ==
  /\ call = "scrapeAllCircuitsData" /\ pc = "waiting"
  /\ \A i \in 1..Len(locals.scrapes) : locals.scrapes[i].status # "pending"
  /\ ret' = Return(collect(locals.scrapes, Len(locals.scrapes)))
  /\ pc' = "done"
  /\ UNCHANGED <<build, call, args, locals>>

NextScrape ==
  ScrapeAllStart \/ ContentArrives \/ InfoboxArrives \/ ScrapeAllSettled

SpecScrape == InitScrape /\ [][NextScrape]_vars

ScrapeDone == call = "scrapeAllCircuitsData" /\ pc = "done"

====
